---- MODULE Spec2Model ----
(***************************************************************************)
(* Star-Citizen-Parse: the log tailer (src/src/log_monitor.py LogMonitor)  *)
(* and the event parser (src/src/event_parser.py parse_line).              *)
(*                                                                         *)
(* Spec      : LogMonitor driven by start/stop/reprocess calls, timer      *)
(*             polls, and an environment that writes the log file.         *)
(* ParseSpec : parse_line applied to bounded log lines and player names.   *)
(*                                                                         *)
(* Text is modelled as sequences of one-character strings, so that         *)
(* splitting, stripping, lower-casing and substring search are computed.   *)
(* The log file holds one byte per character (ASCII), so byte offsets and  *)
(* character positions agree.  Within one poll the file system calls       *)
(* (isfile, getsize, open/read/tell) see one state of the file.            *)
(***************************************************************************)
EXTENDS Integers, Sequences, FiniteSets, TLC

VARIABLES
    mon,          \* LogMonitor fields: filepath, file_offset, file_size, timer_active
    fs_exists,    \* environment: the log file exists
    fs_content,   \* environment: the bytes of the log file
    emitted,      \* the Qt signals emitted by the last step, in order
    lastOp,       \* which operation the last step was
    polled,       \* history: size seen by the prior poll since the last start/stop, or -1
    phase,        \* history: "stopped", "failed" (start on a missing path), "running"
    startedAt,    \* history: offset expected from the last start while only appends followed, or -1
    hist,         \* history: replaced ("yes": the file was truncated or deleted since the
                  \* last operation of the monitor, "seen": the last poll was the first after
                  \* that), tailFrom (the offset of the last successful start while only
                  \* appends and polls followed, or -1), delivered (the lines emitted since)
    line,         \* parser input: the log line (a sequence of tokens)
    player_name,  \* parser input: the configured player name (optional)
    event,        \* parser output
    clock,        \* environment: the wall clock, as datetime.now().strftime("%H:%M:%S")
    event2,       \* parser output of a second call on the same input
    overlay,      \* OverlayWindow: events, stats and the items of the feed
    show          \* the show filters of the configuration

vars == <<mon, fs_exists, fs_content, emitted, lastOp, polled, phase, startedAt, hist,
          line, player_name, event, clock, event2, overlay, show>>

monVars == <<mon, fs_exists, fs_content, emitted, lastOp, polled, phase, startedAt, hist>>
parseVars == <<line, player_name, event, clock, event2, overlay, show>>

-----------------------------------------------------------------------------
(* Bounds *)

MaxFileLen == 4

\* longest line of freely chosen tokens handed to the parser
MaxLineLen == 3

-----------------------------------------------------------------------------
(* Text helpers (Python str semantics) *)

None == "None"

\* characters str.strip() removes
Whitespace == {" ", "\t", "\n", "\r"}

\* the line boundary splitlines() sees in the alphabet of the model
LineBreak == "\n"

RECURSIVE LStrip(_)
LStrip(s) ==
    IF s # <<>> /\ Head(s) \in Whitespace THEN LStrip(Tail(s)) ELSE s

RECURSIVE RStrip(_)
RStrip(s) ==
    IF s # <<>> /\ s[Len(s)] \in Whitespace
    THEN RStrip(SubSeq(s, 1, Len(s) - 1))
    ELSE s

\* str.strip()
Strip(s) == RStrip(LStrip(s))

\* index of the first line break of s, 0 if there is none
FirstBreak(s) ==
    IF \E i \in 1..Len(s) : s[i] = LineBreak
    THEN CHOOSE i \in 1..Len(s) :
             s[i] = LineBreak /\ \A j \in 1..(i - 1) : s[j] # LineBreak
    ELSE 0

\* str.splitlines(): no empty last line after a final line break
RECURSIVE SplitLines(_)
SplitLines(s) ==
    IF s = <<>> THEN <<>>
    ELSE LET i == FirstBreak(s) IN
         IF i = 0 THEN <<s>>
         ELSE <<SubSeq(s, 1, i - 1)>> \o SplitLines(SubSeq(s, i + 1, Len(s)))

-----------------------------------------------------------------------------
(* Python text operations used by the parser *)

UpperCase ==
    <<"A", "B", "C", "D", "E", "F", "G", "H", "I", "J", "K", "L", "M",
      "N", "O", "P", "Q", "R", "S", "T", "U", "V", "W", "X", "Y", "Z">>

LowerCase ==
    <<"a", "b", "c", "d", "e", "f", "g", "h", "i", "j", "k", "l", "m",
      "n", "o", "p", "q", "r", "s", "t", "u", "v", "w", "x", "y", "z">>

Digits == {"0", "1", "2", "3", "4", "5", "6", "7", "8", "9"}

LowerChar(c) ==
    IF \E i \in 1..26 : UpperCase[i] = c
    THEN LowerCase[CHOOSE i \in 1..26 : UpperCase[i] = c]
    ELSE c

\* str.lower()
Lower(s) == [i \in 1..Len(s) |-> LowerChar(s[i])]

\* sub in s
Contains(s, sub) ==
    \E i \in 0..(Len(s) - Len(sub)) : SubSeq(s, i + 1, i + Len(sub)) = sub

\* s.startswith(prefix)
StartsWith(s, prefix) ==
    Len(prefix) <= Len(s) /\ SubSeq(s, 1, Len(prefix)) = prefix

\* index of the first c in s, 0 if there is none
FirstIndex(s, c) ==
    IF \E i \in 1..Len(s) : s[i] = c
    THEN CHOOSE i \in 1..Len(s) : s[i] = c /\ \A j \in 1..(i - 1) : s[j] # c
    ELSE 0

\* s.split(c)
RECURSIVE Split(_, _)
Split(s, c) ==
    LET i == FirstIndex(s, c) IN
    IF i = 0 THEN <<s>>
    ELSE <<SubSeq(s, 1, i - 1)>> \o Split(SubSeq(s, i + 1, Len(s)), c)


\* int(c) of a digit
DigitVal(c) ==
    LET digits == <<"0", "1", "2", "3", "4", "5", "6", "7", "8", "9">>
    IN  (CHOOSE i \in 1..10 : digits[i] = c) - 1

\* int(s) of a string of digits
RECURSIVE IntOf(_)
IntOf(s) ==
    IF s = <<>> THEN 0
    ELSE 10 * IntOf(SubSeq(s, 1, Len(s) - 1)) + DigitVal(s[Len(s)])

\* the class [A-Za-z]
IsAlpha(c) == \E i \in 1..26 : UpperCase[i] = c \/ LowerCase[i] = c

\* Optional[str]
NoneStr == [some |-> FALSE, val |-> <<>>]
Some(s) == [some |-> TRUE, val |-> s]

\* truth value of an Optional[str]: None and "" are false
Truthy(o) == o.some /\ o.val # <<>>

-----------------------------------------------------------------------------
(* event_parser.py: tables and heuristics *)

NPC_PATTERNS ==
    << <<"N", "P", "C", "_">>,
       <<"n", "p", "c", "_">>,
       <<"P", "U", "_">>,
       <<"p", "u", "_">>,
       <<"K", "o", "p", "i", "o", "n">>,
       <<"P", "i", "r", "a", "t", "e">>,
       <<"C", "r", "i", "m", "i", "n", "a", "l">>,
       <<"G", "u", "a", "r", "d">>,
       <<"S", "e", "c", "u", "r", "i", "t", "y">>,
       <<"U", "E", "E", "_">>,
       <<"V", "a", "n", "d", "u", "u", "l">>,
       <<"X", "e", "n", "o", "T", "h", "r", "e", "a", "t">>,
       <<"N", "i", "n", "e", "_", "T", "a", "i", "l", "s">>,
       <<"n", "i", "n", "e", "t", "a", "i", "l", "s">>,
       <<"j", "p", "t", "_">>,
       <<"c", "r", "i", "m", "_">>,
       <<"h", "o", "s", "t", "a", "g", "e">>,
       <<"c", "i", "v", "i", "l", "i", "a", "n">>,
       <<"p", "i", "l", "o", "t", "_">>,
       <<"_", "A", "I", "_">>,
       <<"o", "u", "t", "l", "a", "w">>,
       <<"b", "o", "u", "n", "t", "y", "_">>,
       <<"m", "i", "s", "s", "i", "o", "n", "_">>,
       <<"m", "e", "r", "c", "_">>,
       <<"T", "u", "r", "r", "e", "t">>,
       <<"t", "u", "r", "r", "e", "t">> >>

\* re.match(r'^[A-Za-z]+_[A-Za-z]+_\d+', name)
WordWordDigits(name) ==
    \E i \in 1..Len(name), j \in 1..Len(name) :
        /\ i + 2 <= j
        /\ j + 2 <= Len(name)
        /\ \A h \in 1..i : IsAlpha(name[h])
        /\ name[i + 1] = "_"
        /\ \A h \in (i + 2)..j : IsAlpha(name[h])
        /\ name[j + 1] = "_"
        /\ name[j + 2] \in Digits

\* a comparison against the table that minds the case of the letters
is_npc_case_sensitive(name) ==
    /\ name # <<>>
    /\ \/ \E p \in 1..Len(NPC_PATTERNS) : Contains(name, NPC_PATTERNS[p])
       \/ WordWordDigits(name)

\* is_npc
is_npc(name) ==
    LET name_lower == Lower(name) IN
    /\ name # <<>>
    /\ \/ \E p \in 1..Len(NPC_PATTERNS) : Contains(name_lower, Lower(NPC_PATTERNS[p]))
       \/ WordWordDigits(name)

VEHICLE_NAMES ==
    << <<<<"O", "R", "I", "G">>, <<"O", "r", "i", "g", "i", "n">>>>,
       <<<<"A", "N", "V", "L">>, <<"A", "n", "v", "i", "l">>>>,
       <<<<"A", "E", "G", "S">>, <<"A", "e", "g", "i", "s">>>>,
       <<<<"D", "R", "A", "K">>, <<"D", "r", "a", "k", "e">>>>,
       <<<<"M", "I", "S", "C">>, <<"M", "I", "S", "C">>>>,
       <<<<"R", "S", "I">>, <<"R", "S", "I">>>>,
       <<<<"C", "N", "O", "U">>, <<"C", ".", "O", ".">>>>,
       <<<<"A", "R", "G", "O">>, <<"A", "r", "g", "o">>>>,
       <<<<"B", "A", "N", "U">>, <<"B", "a", "n", "u">>>>,
       <<<<"X", "I", "A", "N">>, <<"X", "i", "'", "a", "n">>>>,
       <<<<"G", "A", "M", "A">>, <<"G", "a", "t", "a", "c">>>>,
       <<<<"K", "R", "I", "G">>, <<"K", "r", "u", "g", "e", "r">>>>,
       <<<<"T", "M", "B", "L">>, <<"T", "u", "m", "b", "r", "i", "l">>>>,
       <<<<"V", "N", "C", "L">>, <<"V", "a", "n", "d", "u", "u", "l">>>>,
       <<<<"C", "R", "U", "S">>, <<"C", "r", "u", "s", "a", "d", "e", "r">>>> >>

SHIP_LOOKUP ==
    << <<<<"G", "l", "a", "d", "i", "u", "s">>, <<"G", "l", "a", "d", "i", "u", "s">>>>,
       <<<<"A", "r", "r", "o", "w">>, <<"A", "r", "r", "o", "w">>>>,
       <<<<"H", "o", "r", "n", "e", "t">>, <<"H", "o", "r", "n", "e", "t">>>>,
       <<<<"S", "a", "b", "r", "e">>, <<"S", "a", "b", "r", "e">>>>,
       <<<<"V", "a", "n", "g", "u", "a", "r", "d">>, <<"V", "a", "n", "g", "u", "a", "r", "d">>>>,
       <<<<"E", "c", "l", "i", "p", "s", "e">>, <<"E", "c", "l", "i", "p", "s", "e">>>>,
       <<<<"R", "e", "t", "a", "l", "i", "a", "t", "o", "r">>, <<"R", "e", "t", "a", "l", "i", "a", "t", "o", "r">>>>,
       <<<<"H", "a", "m", "m", "e", "r", "h", "e", "a", "d">>, <<"H", "a", "m", "m", "e", "r", "h", "e", "a", "d">>>>,
       <<<<"C", "a", "r", "r", "a", "c", "k">>, <<"C", "a", "r", "r", "a", "c", "k">>>>,
       <<<<"C", "u", "t", "l", "a", "s", "s">>, <<"C", "u", "t", "l", "a", "s", "s">>>>,
       <<<<"F", "r", "e", "e", "l", "a", "n", "c", "e", "r">>, <<"F", "r", "e", "e", "l", "a", "n", "c", "e", "r">>>>,
       <<<<"C", "a", "t", "e", "r", "p", "i", "l", "l", "a", "r">>, <<"C", "a", "t", "e", "r", "p", "i", "l", "l", "a", "r">>>>,
       <<<<"H", "e", "r", "a", "l", "d">>, <<"H", "e", "r", "a", "l", "d">>>>,
       <<<<"B", "u", "c", "c", "a", "n", "e", "e", "r">>, <<"B", "u", "c", "c", "a", "n", "e", "e", "r">>>>,
       <<<<"C", "o", "n", "s", "t", "e", "l", "l", "a", "t", "i", "o", "n">>, <<"C", "o", "n", "s", "t", "e", "l", "l", "a", "t", "i", "o", "n">>>>,
       <<<<"V", "a", "l", "k", "y", "r", "i", "e">>, <<"V", "a", "l", "k", "y", "r", "i", "e">>>>,
       <<<<"R", "e", "c", "l", "a", "i", "m", "e", "r">>, <<"R", "e", "c", "l", "a", "i", "m", "e", "r">>>>,
       <<<<"S", "t", "a", "r", "f", "a", "r", "e", "r">>, <<"S", "t", "a", "r", "f", "a", "r", "e", "r">>>>,
       <<<<"8", "9", "0">>, <<"8", "9", "0", " ", "J", "u", "m", "p">>>>,
       <<<<"A", "v", "e", "n", "g", "e", "r">>, <<"A", "v", "e", "n", "g", "e", "r">>>>,
       <<<<"T", "i", "t", "a", "n">>, <<"T", "i", "t", "a", "n">>>>,
       <<<<"S", "t", "a", "l", "k", "e", "r">>, <<"S", "t", "a", "l", "k", "e", "r">>>>,
       <<<<"W", "a", "r", "l", "o", "c", "k">>, <<"W", "a", "r", "l", "o", "c", "k">>>>,
       <<<<"M", "u", "s", "t", "a", "n", "g">>, <<"M", "u", "s", "t", "a", "n", "g">>>>,
       <<<<"A", "u", "r", "o", "r", "a">>, <<"A", "u", "r", "o", "r", "a">>>>,
       <<<<"P", "i", "s", "c", "e", "s">>, <<"P", "i", "s", "c", "e", "s">>>>,
       <<<<"M", "e", "r", "c", "u", "r", "y">>, <<"M", "e", "r", "c", "u", "r", "y", " ", "S", "t", "a", "r", " ", "R", "u", "n", "n", "e", "r">>>>,
       <<<<"T", "e", "r", "r", "a", "p", "i", "n">>, <<"T", "e", "r", "r", "a", "p", "i", "n">>>>,
       <<<<"P", "r", "o", "s", "p", "e", "c", "t", "o", "r">>, <<"P", "r", "o", "s", "p", "e", "c", "t", "o", "r">>>>,
       <<<<"M", "o", "l", "e">>, <<"M", "O", "L", "E">>>>,
       <<<<"V", "u", "l", "t", "u", "r", "e">>, <<"V", "u", "l", "t", "u", "r", "e">>>>,
       <<<<"S", "p", "i", "r", "i", "t">>, <<"S", "p", "i", "r", "i", "t">>>>,
       <<<<"S", "c", "o", "r", "p", "i", "u", "s">>, <<"S", "c", "o", "r", "p", "i", "u", "s">>>>,
       <<<<"R", "e", "d", "e", "e", "m", "e", "r">>, <<"R", "e", "d", "e", "e", "m", "e", "r">>>>,
       <<<<"P", "a", "l", "a", "d", "i", "n">>, <<"P", "a", "l", "a", "d", "i", "n">>>>,
       <<<<"Z", "e", "u", "s">>, <<"Z", "e", "u", "s">>>> >>

\* extract_ship_name, the manufacturer branch: f"{mfr} {remainder}".strip()
ManufacturerName(zone_or_id, p) ==
    LET remainder == IF FirstIndex(zone_or_id, "_") # 0
                     THEN Split(zone_or_id, "_")[2] ELSE <<>>
    IN  Strip(VEHICLE_NAMES[p][2] \o <<" ">> \o remainder)

\* a resolution that consults the manufacturer prefixes before the ship table
extract_ship_name_prefix_first(zone_or_id) ==
    LET ships == {i \in 1..Len(SHIP_LOOKUP) :
                     Contains(Lower(zone_or_id), Lower(SHIP_LOOKUP[i][1]))}
        mfrs == {p \in 1..Len(VEHICLE_NAMES) :
                     StartsWith(zone_or_id, VEHICLE_NAMES[p][1] \o <<"_">>)}
    IN  IF zone_or_id = <<>> THEN NoneStr
        ELSE IF mfrs # {}
             THEN Some(ManufacturerName(zone_or_id, CHOOSE p \in mfrs : \A q \in mfrs : p <= q))
        ELSE IF ships # {} THEN Some(SHIP_LOOKUP[CHOOSE i \in ships : \A j \in ships : i <= j][2])
        ELSE NoneStr

\* extract_ship_name
extract_ship_name(zone_or_id) ==
    LET ships == {i \in 1..Len(SHIP_LOOKUP) :
                     Contains(Lower(zone_or_id), Lower(SHIP_LOOKUP[i][1]))}
        mfrs == {p \in 1..Len(VEHICLE_NAMES) :
                     StartsWith(zone_or_id, VEHICLE_NAMES[p][1] \o <<"_">>)}
    IN  IF zone_or_id = <<>> THEN NoneStr
        ELSE IF ships # {} THEN Some(SHIP_LOOKUP[CHOOSE i \in ships : \A j \in ships : i <= j][2])
        ELSE IF mfrs # {}
             THEN Some(ManufacturerName(zone_or_id, CHOOSE p \in mfrs : \A q \in mfrs : p <= q))
        ELSE NoneStr

\* the pattern of extract_timestamp at the start of the line:
\* <(\d{4}-\d{2}-\d{2}T\d{2}:\d{2}:\d{2})
TimestampShape(text) ==
    /\ Len(text) >= 20
    /\ text[1] = "<"
    /\ \A i \in {2, 3, 4, 5, 7, 8, 10, 11, 13, 14, 16, 17, 19, 20} : text[i] \in Digits
    /\ text[6] = "-" /\ text[9] = "-"
    /\ text[12] = "T"
    /\ text[15] = ":" /\ text[18] = ":"

IsLeapYear(y) == (y % 4 = 0 /\ y % 100 # 0) \/ y % 400 = 0

DaysInMonth(y, m) ==
    IF m = 2 THEN (IF IsLeapYear(y) THEN 29 ELSE 28)
    ELSE IF m \in {4, 6, 9, 11} THEN 30
    ELSE 31

\* datetime.fromisoformat accepts the matched text (no ValueError)
IsoValid(text) ==
    LET y == IntOf(SubSeq(text, 2, 5))
        m == IntOf(SubSeq(text, 7, 8))
        d == IntOf(SubSeq(text, 10, 11))
    IN  /\ y >= 1
        /\ m \in 1..12
        /\ d >= 1 /\ d <= DaysInMonth(y, m)
        /\ IntOf(SubSeq(text, 13, 14)) <= 23
        /\ IntOf(SubSeq(text, 16, 17)) <= 59
        /\ IntOf(SubSeq(text, 19, 20)) <= 59

\* an extract_timestamp that always takes the wall clock
extract_timestamp_always_now(text, now) == now

\* extract_timestamp: dt.strftime("%H:%M:%S"), or the wall clock
extract_timestamp(text, now) ==
    IF TimestampShape(text) /\ IsoValid(text) THEN SubSeq(text, 13, 20) ELSE now

-----------------------------------------------------------------------------
(* Log lines.  A line is a sequence of tokens separated by single blanks; a   *)
(* token is a piece of text the patterns treat as a unit: k is its kind, s   *)
(* its text (for a quoted string 'x' the text between the quotes).  Quoted   *)
(* strings are non-empty and hold no quote, and the words hold none of the   *)
(* keywords of the structured patterns (killed by, level, from .. to).       *)
(* A token of kind weapon, direction or dmgkv stands for key=value text and  *)
(* s is the value; zonekey and dmgkey are the words before a quoted zone or  *)
(* damage type.                                                              *)

Tok(k, s) == [k |-> k, s |-> s]

DeathTagText == <<"<", "A", "c", "t", "o", "r", " ", "D", "e", "a", "t", "h", ">">>
VehicleTagText == <<"<", "V", "e", "h", "i", "c", "l", "e", " ", "D", "e", "s", "t", "r", "u", "c", "t", "i", "o", "n", ">">>
CorpseTagText == <<"<", "C", "o", "r", "p", "s", "e", ">">>
JumpTagText == <<"<", "J", "u", "m", "p", " ", "D", "r", "i", "v", "e", " ", "C", "h", "a", "n", "g", "i", "n", "g", " ", "S", "t", "a", "t", "e", ">">>
DisconnectTagText == <<"<", "D", "i", "s", "c", "o", "n", "n", "e", "c", "t", ">">>
StallTagText == <<"<", "A", "c", "t", "o", "r", " ", "S", "t", "a", "l", "l", ">">>
KillFnText == <<"C", "A", "c", "t", "o", "r", ":", ":", "K", "i", "l", "l", ":">>
KilledByText == <<"k", "i", "l", "l", "e", "d", " ", "b", "y">>
DisconnectWord == <<"d", "i", "s", "c", "o", "n", "n", "e", "c", "t">>
CNetworkErrorWord == <<"C", "N", "e", "t", "w", "o", "r", "k", "E", "r", "r", "o", "r">>
ActorStallWord == <<"A", "c", "t", "o", "r", "S", "t", "a", "l", "l">>
LevelTo2 == <<"l", "e", "v", "e", "l", " ", "1", " ", "t", "o", " ", "2">>
FromToText == <<"f", "r", "o", "m", " ", "R", "E", "Q", "U", "E", "S", "T", "_", "J", "U", "M", "P", " ", "t", "o", " ", "J", "U", "M", "P", "_", "D", "R", "I", "V", "E", "_", "E", "N", "G", "A", "G", "E", "D">>
Hero123 == <<"H", "e", "r", "o", "1", "2", "3">>
HERO123 == <<"H", "E", "R", "O", "1", "2", "3">>
Bob == <<"B", "o", "b">>
BobPadded == <<" ", "B", "o", "b">>
NPC_Pirate_02 == <<"N", "P", "C", "_", "P", "i", "r", "a", "t", "e", "_", "0", "2">>
NPC_Pirate_03 == <<"N", "P", "C", "_", "P", "i", "r", "a", "t", "e", "_", "0", "3">>
Ab_Cd_1 == <<"A", "b", "_", "C", "d", "_", "1">>

Quoted(name) == Tok("q", name)

WeaponKey == <<"w", "e", "a", "p", "o", "n", "=">>
DirectionKey == <<"d", "i", "r", "e", "c", "t", "i", "o", "n", "=", "(">>
DamageTypeKey == <<"d", "a", "m", "a", "g", "e", "_", "t", "y", "p", "e", "=">>
InZoneText == <<"i", "n", " ", "z", "o", "n", "e">>
WithDamageTypeText == <<"w", "i", "t", "h", " ", "d", "a", "m", "a", "g", "e", " ", "t", "y", "p", "e">>

\* the text of a token as it stands in the line
TokText(t) ==
    IF t.k = "q" THEN <<"'">> \o t.s \o <<"'">>
    ELSE IF t.k = "weapon" THEN WeaponKey \o t.s
    ELSE IF t.k = "direction" THEN DirectionKey \o t.s \o <<")">>
    ELSE IF t.k = "dmgkv" THEN DamageTypeKey \o t.s
    ELSE t.s

\* the text of the line
RECURSIVE LineText(_)
LineText(l) ==
    IF l = <<>> THEN <<>>
    ELSE IF Len(l) = 1 THEN TokText(l[1])
    ELSE TokText(l[1]) \o <<" ">> \o LineText(Tail(l))

\* least element of a non-empty set of positions
Least(S) == CHOOSE i \in S : \A j \in S : i <= j

\* positions of the tokens of kind k behind position i
After(l, i, k) == {j \in (i + 1)..Len(l) : l[j].k = k}

\* a match: groups 1 and 2, and the optional groups 3 and 4
NoMatch == [ok |-> FALSE, g1 |-> <<>>, g2 |-> <<>>, g3 |-> NoneStr, g4 |-> NoneStr]
Match(a, b) == [ok |-> TRUE, g1 |-> a, g2 |-> b, g3 |-> NoneStr, g4 |-> NoneStr]

\* positions behind i of a key token of kind k directly followed by a quoted string
KeyedQuotes(l, i, k) == {j \in After(l, i, k) : j + 1 <= Len(l) /\ l[j + 1].k = "q"}

\* positions j behind i where  CActor::Kill: 'victim' .. killed by 'killer'  can begin
KillSites(l, i) ==
    {j \in After(l, i, "killfn") :
        /\ j + 1 <= Len(l) /\ l[j + 1].k = "q"
        /\ \E k \in After(l, j + 1, "killedby") : k + 1 <= Len(l) /\ l[k + 1].k = "q"}

\* RE_ACTOR_DEATH.search(line): groups 1 (victim), 2 (killer) and, behind the
\* killer, 3 (with damage type '..') and behind that 4 (in zone '..')
RE_ACTOR_DEATH(l) ==
    LET tags == After(l, 0, "tag_death") IN
    IF tags = {} \/ KillSites(l, Least(tags)) = {} THEN NoMatch
    ELSE LET j == Least(KillSites(l, Least(tags)))
             k == Least({k \in After(l, j + 1, "killedby") :
                            k + 1 <= Len(l) /\ l[k + 1].k = "q"})
             dmg == KeyedQuotes(l, k + 1, "dmgkey")
             pos == IF dmg = {} THEN k + 1 ELSE Least(dmg) + 1
             zone == KeyedQuotes(l, pos, "zonekey")
         IN  [Match(l[j + 1].s, l[k + 1].s) EXCEPT
                 !.g3 = IF dmg = {} THEN NoneStr ELSE Some(l[Least(dmg) + 1].s),
                 !.g4 = IF zone = {} THEN NoneStr ELSE Some(l[Least(zone) + 1].s)]

\* positions j behind i where  'victim' killed by 'killer'  stands
AltSites(l, i) ==
    {j \in After(l, i, "q") :
        /\ j + 2 <= Len(l)
        /\ l[j + 1].k = "killedby"
        /\ l[j + 2].k = "q"}

\* an alternative pattern that does not ask for the <Actor Death> marker
RE_ACTOR_DEATH_ALT_untagged(l) ==
    IF AltSites(l, 0) = {} THEN NoMatch
    ELSE LET j == Least(AltSites(l, 0)) IN Match(l[j].s, l[j + 2].s)

\* RE_ACTOR_DEATH_ALT.search(line): groups 1 (victim), 2 (killer) and, behind
\* the killer, 3 (damage_type=..)
RE_ACTOR_DEATH_ALT(l) ==
    LET tags == After(l, 0, "tag_death") IN
    IF tags = {} \/ AltSites(l, Least(tags)) = {} THEN NoMatch
    ELSE LET j == Least(AltSites(l, Least(tags)))
             dmg == After(l, j + 2, "dmgkv")
         IN  [Match(l[j].s, l[j + 2].s) EXCEPT
                 !.g3 = IF dmg = {} THEN NoneStr ELSE Some(l[Least(dmg)].s)]

\* RE_VEHICLE_DESTROY.search(line): groups 1 (vehicle id), 2 (level from) and
\* 3 (level to) of  level N to M
RE_VEHICLE_DESTROY(l) ==
    LET tags == After(l, 0, "tag_vehicle") IN
    IF tags = {} \/ After(l, Least(tags), "q") = {} THEN NoMatch
    ELSE LET j == Least(After(l, Least(tags), "q")) IN
         IF After(l, j, "level") = {} THEN NoMatch
         ELSE LET words == Split(l[Least(After(l, j, "level"))].s, " ") IN
              [Match(l[j].s, words[2]) EXCEPT !.g3 = Some(words[4])]

\* RE_VEHICLE_DESTROY_ALT.search(line): group 1 (vehicle id)
RE_VEHICLE_DESTROY_ALT(l) ==
    LET tags == After(l, 0, "tag_vehicle") IN
    IF tags = {} \/ After(l, Least(tags), "q") = {} THEN NoMatch
    ELSE Match(l[Least(After(l, Least(tags), "q"))].s, <<>>)

\* RE_CORPSE.search(line): group 1
RE_CORPSE(l) ==
    LET tags == After(l, 0, "tag_corpse") IN
    IF tags = {} \/ After(l, Least(tags), "q") = {} THEN NoMatch
    ELSE Match(l[Least(After(l, Least(tags), "q"))].s, <<>>)

\* RE_JUMP.search(line): groups 1 and 2 of  from A to B
RE_JUMP(l) ==
    LET tags == After(l, 0, "tag_jump") IN
    IF tags = {} \/ After(l, Least(tags), "fromto") = {} THEN NoMatch
    ELSE LET words == Split(l[Least(After(l, Least(tags), "fromto"))].s, " ") IN
         Match(words[2], words[4])

\* RE_WEAPON.search(line): group 1
RE_WEAPON(l) ==
    IF After(l, 0, "weapon") = {} THEN NoneStr
    ELSE Some(l[Least(After(l, 0, "weapon"))].s)

\* RE_DIRECTION.search(line): group 1
RE_DIRECTION(l) ==
    IF After(l, 0, "direction") = {} THEN NoneStr
    ELSE Some(l[Least(After(l, 0, "direction"))].s)

\* RE_DISCONNECT.search(line): <Disconnect>|disconnect|CNetworkError|Server\s+disconnect,
\* ignoring case (the first and last alternatives contain the second)
RE_DISCONNECT(l) ==
    LET text == Lower(LineText(l)) IN
    \/ Contains(text, Lower(DisconnectWord))
    \/ Contains(text, Lower(CNetworkErrorWord))

\* RE_STALL.search(line): <Actor Stall>|ActorStall, ignoring case
RE_STALL(l) ==
    LET text == Lower(LineText(l)) IN
    \/ Contains(text, Lower(StallTagText))
    \/ Contains(text, Lower(ActorStallWord))

-----------------------------------------------------------------------------
(* parse_line *)

\* a dataclass whose destruction level defaults to "unknown"
GameEvent_level_unknown(t, ts) ==
    [event_type |-> t, timestamp |-> ts,
     killer |-> NoneStr, victim |-> NoneStr, weapon |-> NoneStr,
     damage_type |-> NoneStr, ship |-> NoneStr, location |-> NoneStr,
     direction |-> NoneStr, vehicle_name |-> NoneStr, destruction_level |-> "unknown",
     jump_state |-> NoneStr, is_player_involved |-> "False"]

\* GameEvent(event_type, timestamp, raw_line) with the defaults of the dataclass
GameEvent(t, ts) ==
    [event_type |-> t, timestamp |-> ts,
     killer |-> NoneStr, victim |-> NoneStr, weapon |-> NoneStr,
     damage_type |-> NoneStr, ship |-> NoneStr, location |-> NoneStr,
     direction |-> NoneStr, vehicle_name |-> NoneStr, destruction_level |-> "None",
     jump_state |-> NoneStr, is_player_involved |-> "False"]

\* parse_line returned None
NoEvent == GameEvent("none", <<>>)

\* parse_line has not been called
NotParsed == GameEvent("pending", <<>>)

PyBool(b) == IF b THEN "True" ELSE "False"

\* player_name.lower() if player_name else None
PlayerLower(pn) == IF Truthy(pn) THEN Some(Lower(pn.val)) ELSE NoneStr

\* player_lower and name.lower() == player_lower
IsPlayerChar(name, pn) ==
    IF ~PlayerLower(pn).some THEN "None"
    ELSE PyBool(Lower(name) = PlayerLower(pn).val)

\* a or b, on None/False/True
PyOr(a, b) == IF a = "True" THEN a ELSE b

\* a classification that tests the NPC heuristic before the suicide test
DeathEventType_npc_first(victim, killer, pn) ==
    IF is_npc(victim) THEN "pve_kill"
    ELSE IF Lower(killer) = Lower(victim) THEN "suicide"
    ELSE IF IsPlayerChar(victim, pn) = "True" THEN "death"
    ELSE IF IsPlayerChar(killer, pn) = "True" THEN "pvp_kill"
    ELSE "death_other"

\* a classification that takes every kill by the player for a player kill
DeathEventType_pvp_always(victim, killer, pn) ==
    IF Lower(killer) = Lower(victim) THEN "suicide"
    ELSE IF IsPlayerChar(victim, pn) = "True" THEN "death"
    ELSE IF IsPlayerChar(killer, pn) = "True" THEN "pvp_kill"
    ELSE IF is_npc(victim) THEN "pve_kill"
    ELSE "death_other"

\* a classification that takes every spectated death for a player death
DeathEventType_spectated_as_other(victim, killer, pn) ==
    IF Lower(killer) = Lower(victim) THEN "suicide"
    ELSE IF IsPlayerChar(victim, pn) = "True" THEN "death"
    ELSE IF IsPlayerChar(killer, pn) = "True"
         THEN (IF is_npc(victim) THEN "pve_kill" ELSE "pvp_kill")
    ELSE "death_other"

\* parse_line, actor death: the event type ("none": return None)
DeathEventType(victim, killer, pn) ==
    IF Lower(killer) = Lower(victim) THEN "suicide"
    ELSE IF IsPlayerChar(victim, pn) = "True" THEN "death"
    ELSE IF IsPlayerChar(killer, pn) = "True"
         THEN (IF is_npc(victim) THEN "pve_kill" ELSE "pvp_kill")
    ELSE IF is_npc(victim) THEN "pve_kill"
    ELSE IF is_npc(killer) /\ is_npc(victim) THEN "none"
    ELSE "death_other"

\* parse_line, actor death: is_player_involved
DeathInvolved(victim, killer, pn) ==
    IF Lower(killer) = Lower(victim)
    THEN PyBool(PlayerLower(pn).some /\ PlayerLower(pn).val = Lower(killer))
    ELSE PyOr(IsPlayerChar(killer, pn), IsPlayerChar(victim, pn))

\* match.group(n).strip() if match.lastindex >= n and match.group(n) else None
StrippedGroup(g) == IF Truthy(g) THEN Some(Strip(g.val)) ELSE NoneStr

\* parse_line, actor death branch, m the match
DeathEvent(l, m, pn, ts) ==
    LET victim == Strip(m.g1)
        killer == Strip(m.g2)
        damage_type == StrippedGroup(m.g3)
        zone == StrippedGroup(m.g4)
        ship == IF Truthy(zone) THEN extract_ship_name(zone.val) ELSE NoneStr
        t == DeathEventType(victim, killer, pn)
    IN  IF t = "none" THEN NoEvent
        ELSE IF t = "suicide"
        THEN [GameEvent(t, ts) EXCEPT
                 !.killer = Some(killer), !.victim = Some(victim),
                 !.damage_type = damage_type, !.ship = ship,
                 !.is_player_involved = DeathInvolved(victim, killer, pn)]
        ELSE [GameEvent(t, ts) EXCEPT
                 !.killer = Some(killer), !.victim = Some(victim),
                 !.weapon = RE_WEAPON(l), !.damage_type = damage_type,
                 !.ship = ship, !.location = zone, !.direction = RE_DIRECTION(l),
                 !.is_player_involved = DeathInvolved(victim, killer, pn)]

\* a search that tries the alternative pattern first
DeathMatch_alt_first(l) ==
    IF RE_ACTOR_DEATH_ALT(l).ok THEN RE_ACTOR_DEATH_ALT(l) ELSE RE_ACTOR_DEATH(l)

\* RE_ACTOR_DEATH.search(line), or RE_ACTOR_DEATH_ALT.search(line) when it fails
DeathMatch(l) ==
    IF RE_ACTOR_DEATH(l).ok THEN RE_ACTOR_DEATH(l) ELSE RE_ACTOR_DEATH_ALT(l)

\* parse_line, corpse: player_name and name.lower() == player_name.lower()
CorpseInvolved(name, pn) ==
    IF ~pn.some THEN "None"
    ELSE IF pn.val = <<>> THEN "EmptyStr"
    ELSE PyBool(Lower(name) = Lower(pn.val))

\* extract_ship_name(vehicle_id) or vehicle_id
VehicleName(vehicle_id) ==
    IF Truthy(extract_ship_name(vehicle_id)) THEN extract_ship_name(vehicle_id)
    ELSE Some(vehicle_id)

\* a severity taken from the level the vehicle comes from
DestructionLevel_of_source(m) == IF m.g2 = <<"2">> THEN "full" ELSE "soft"

\* parse_line, vehicle destruction: "full" if level_to == "2" else "soft"
DestructionLevel(m) == IF m.g3.val = <<"2">> THEN "full" ELSE "soft"

\* the character U+2192 of f"{from_state} -> {to_state}"
RightArrow == "U+2192"

\* parse_line, the branches behind the actor death branch
LaterCategories(l, pn, ts) ==
    IF RE_VEHICLE_DESTROY(l).ok
    THEN [GameEvent("vehicle", ts) EXCEPT
             !.vehicle_name = VehicleName(RE_VEHICLE_DESTROY(l).g1),
             !.destruction_level = DestructionLevel(RE_VEHICLE_DESTROY(l))]
    ELSE IF RE_VEHICLE_DESTROY_ALT(l).ok /\ Contains(LineText(l), VehicleTagText)
    THEN [GameEvent("vehicle", ts) EXCEPT
             !.vehicle_name = VehicleName(RE_VEHICLE_DESTROY_ALT(l).g1),
             !.destruction_level = "unknown"]
    ELSE IF RE_CORPSE(l).ok
    THEN [GameEvent("corpse", ts) EXCEPT
             !.victim = Some(RE_CORPSE(l).g1),
             !.is_player_involved = CorpseInvolved(RE_CORPSE(l).g1, pn)]
    ELSE IF RE_JUMP(l).ok
    THEN [GameEvent("jump", ts) EXCEPT
             !.jump_state = Some(RE_JUMP(l).g1 \o <<" ", RightArrow, " ">> \o RE_JUMP(l).g2)]
    ELSE IF RE_DISCONNECT(l) THEN GameEvent("disconnect", ts)
    ELSE IF RE_STALL(l) THEN GameEvent("stall", ts)
    ELSE NoEvent

\* a parse_line that gives up on a line once its actor death marker is seen
parse_line_stops_at_marker(l, pn, now) ==
    IF l = <<>> \/ Len(LineText(l)) < 10 THEN NoEvent
    ELSE IF DeathMatch(l).ok
         THEN DeathEvent(l, DeathMatch(l), pn, extract_timestamp(LineText(l), now))
    ELSE IF After(l, 0, "tag_death") # {} THEN NoEvent
    ELSE LaterCategories(l, pn, extract_timestamp(LineText(l), now))

\* parse_line; now is what datetime.now() gives during the call
parse_line(l, pn, now) ==
    IF l = <<>> \/ Len(LineText(l)) < 10 THEN NoEvent
    ELSE IF DeathMatch(l).ok
         THEN DeathEvent(l, DeathMatch(l), pn, extract_timestamp(LineText(l), now))
    ELSE LaterCategories(l, pn, extract_timestamp(LineText(l), now))

-----------------------------------------------------------------------------
(* LogMonitor *)

LogPath == "Game.log"
NoSuchPath == "NoSuch.log"
Paths == {LogPath, NoSuchPath}

\* bytes the environment may write
FileChars == {"a", "b", " ", "\n"}

\* os.path.isfile(path)
isfile(path, exists) == path = LogPath /\ exists

\* os.path.getsize(path) of the existing log file
getsize(content) == Len(content)

Signal(sig, l) == [sig |-> sig, line |-> l]
file_reset == Signal("file_reset", <<>>)
monitoring_started == Signal("monitoring_started", <<>>)
new_line(l) == Signal("new_line", l)

\* LogMonitor.__init__
LogMonitorInit ==
    [filepath |-> None, file_offset |-> 0, file_size |-> 0, timer_active |-> FALSE]

\* a stop that forgets to clear the path
stop_keeps_path(m) ==
    [m EXCEPT !.timer_active = FALSE, !.file_offset = 0]

\* LogMonitor.stop
stop(m) ==
    [m EXCEPT !.timer_active = FALSE, !.filepath = None, !.file_offset = 0]

\* a start that ignores read_existing and always begins at the end of the file
start_always_at_end(m, filepath, read_existing, exists, content) ==
    LET m1 == [stop(m) EXCEPT !.filepath = filepath] IN
    IF ~isfile(filepath, exists)
    THEN [mon |-> m1, out |-> <<>>]
    ELSE [mon |-> [m1 EXCEPT !.file_offset = getsize(content),
                             !.file_size = getsize(content),
                             !.timer_active = TRUE],
          out |-> <<monitoring_started>>]

\* LogMonitor.start: the monitor after the call and the signals emitted
start(m, filepath, read_existing, exists, content) ==
    LET m1 == [stop(m) EXCEPT !.filepath = filepath] IN
    IF ~isfile(filepath, exists)
    THEN [mon |-> m1, out |-> <<>>]
    ELSE [mon |-> [m1 EXCEPT !.file_offset = IF read_existing THEN 0 ELSE getsize(content),
                             !.file_size = getsize(content),
                             !.timer_active = TRUE],
          out |-> <<monitoring_started>>]

\* the loop of _poll over new_data.splitlines(): strip, skip blank, emit
RECURSIVE EmitLines(_)
EmitLines(ls) ==
    IF ls = <<>> THEN <<>>
    ELSE LET l == Strip(Head(ls)) IN
         (IF l # <<>> THEN <<new_line(l)>> ELSE <<>>) \o EmitLines(Tail(ls))

\* a truncation test that leaves the stale offset in place
OffsetKeptOnTruncation(current_size, file_offset) == file_offset

\* _poll, the truncation test: the offset to read from
OffsetAfterTruncationCheck(current_size, file_offset) ==
    IF current_size < file_offset THEN 0 ELSE file_offset

\* a truncation test that never notifies
ResetNeverSignalled(current_size, file_offset) == <<>>

\* a truncation test that also notifies when the size equals the offset
ResetWhenNotGrown(current_size, file_offset) ==
    IF current_size <= file_offset THEN <<file_reset>> ELSE <<>>

\* _poll, the truncation test: the reset notification
ResetSignals(current_size, file_offset) ==
    IF current_size < file_offset THEN <<file_reset>> ELSE <<>>

\* _poll, the read: f.seek(offset); f.read() returns everything up to the end of file
ReadFrom(content, offset) == SubSeq(content, offset + 1, Len(content))

\* a read that leaves the offset where it was
TellWhereSought(content, offset) == offset

\* _poll, the read: f.tell() after f.read() is the end of the file
TellAfterRead(content, offset) == Len(content)

\* LogMonitor._poll: the monitor after the call and the signals emitted
_poll(m, exists, content) ==
    IF m.filepath = None \/ ~isfile(m.filepath, exists)
    THEN [mon |-> m, out |-> <<>>]
    ELSE LET current_size == getsize(content)
             off == OffsetAfterTruncationCheck(current_size, m.file_offset)
             reset == ResetSignals(current_size, m.file_offset)
         IN  IF current_size > off
             THEN [mon |-> [m EXCEPT !.file_offset = TellAfterRead(content, off),
                                     !.file_size = current_size],
                   out |-> reset \o EmitLines(SplitLines(ReadFrom(content, off)))]
             ELSE [mon |-> [m EXCEPT !.file_offset = off, !.file_size = current_size],
                   out |-> reset]

\* a reprocess that polls without rewinding the offset
reprocess_without_rewind(m, exists, content) ==
    IF m.filepath # None
    THEN _poll(m, exists, content)
    ELSE [mon |-> m, out |-> <<>>]

\* LogMonitor.reprocess
reprocess(m, exists, content) ==
    IF m.filepath # None
    THEN _poll([m EXCEPT !.file_offset = 0], exists, content)
    ELSE [mon |-> m, out |-> <<>>]

-----------------------------------------------------------------------------
(* Monitor actions *)

\* the size a poll of monitor m observes, -1 if it returns before looking
ObservedSize(m) ==
    IF m.filepath # None /\ isfile(m.filepath, fs_exists) THEN getsize(fs_content) ELSE -1

\* history: nothing replaced, no run of appends and polls behind a start
NoHistory == [replaced |-> "no", tailFrom |-> -1, delivered |-> <<>>]

Start(filepath, read_existing) ==
    LET r == start(mon, filepath, read_existing, fs_exists, fs_content) IN
    /\ mon' = r.mon
    /\ emitted' = r.out
    /\ lastOp' = "start"
    /\ polled' = -1
    /\ phase' = IF isfile(filepath, fs_exists) THEN "running" ELSE "failed"
    /\ startedAt' = IF isfile(filepath, fs_exists)
                    THEN (IF read_existing THEN 0 ELSE Len(fs_content))
                    ELSE -1
    /\ hist' = [replaced |-> "no",
                tailFrom |-> IF isfile(filepath, fs_exists) THEN r.mon.file_offset ELSE -1,
                delivered |-> <<>>]
    /\ UNCHANGED <<fs_exists, fs_content>>

Stop ==
    /\ mon' = stop(mon)
    /\ emitted' = <<>>
    /\ lastOp' = "stop"
    /\ polled' = -1
    /\ phase' = "stopped"
    /\ startedAt' = -1
    /\ hist' = NoHistory
    /\ UNCHANGED <<fs_exists, fs_content>>

Reprocess ==
    LET r == reprocess(mon, fs_exists, fs_content) IN
    /\ mon' = r.mon
    /\ emitted' = r.out
    /\ lastOp' = "reprocess"
    /\ polled' = ObservedSize(mon)
    /\ startedAt' = -1
    /\ hist' = NoHistory
    /\ UNCHANGED <<fs_exists, fs_content, phase>>

\* the QTimer fires: timeout is connected to _poll
Poll ==
    /\ mon.timer_active
    /\ LET r == _poll(mon, fs_exists, fs_content) IN
       /\ mon' = r.mon
       /\ emitted' = r.out
       /\ hist' = [replaced |-> IF hist.replaced = "yes" THEN "seen" ELSE "no",
                   tailFrom |-> hist.tailFrom,
                   delivered |->
                       LET at == {i \in 1..Len(r.out) : r.out[i].sig = "new_line"}
                           nth(n) == CHOOSE i \in at : Cardinality({j \in at : j <= i}) = n
                       IN  IF hist.tailFrom = -1 THEN <<>>
                           ELSE hist.delivered
                                    \o [n \in 1..Cardinality(at) |-> r.out[nth(n)].line]]
    /\ lastOp' = "poll"
    /\ polled' = IF ObservedSize(mon) # -1 THEN ObservedSize(mon) ELSE polled
    /\ startedAt' = -1
    /\ UNCHANGED <<fs_exists, fs_content, phase>>

\* environment: the game appends a byte to the log
WriteByte(c) ==
    /\ fs_exists
    /\ Len(fs_content) < MaxFileLen
    /\ fs_content' = Append(fs_content, c)
    /\ emitted' = <<>>
    /\ lastOp' = "env"
    /\ UNCHANGED <<mon, fs_exists, polled, phase, startedAt, hist>>

\* environment: the log is truncated (a new game session)
Truncate ==
    /\ fs_exists
    /\ fs_content # <<>>
    /\ fs_content' = <<>>
    /\ emitted' = <<>>
    /\ lastOp' = "env"
    /\ startedAt' = -1
    /\ hist' = [NoHistory EXCEPT !.replaced = "yes"]
    /\ UNCHANGED <<mon, fs_exists, polled, phase>>

\* environment: the log is deleted
Delete ==
    /\ fs_exists
    /\ fs_exists' = FALSE
    /\ fs_content' = <<>>
    /\ emitted' = <<>>
    /\ lastOp' = "env"
    /\ startedAt' = -1
    /\ hist' = [NoHistory EXCEPT !.replaced = "yes"]
    /\ UNCHANGED <<mon, polled, phase>>

\* environment: the log is created, empty
Create ==
    /\ ~fs_exists
    /\ fs_exists' = TRUE
    /\ fs_content' = <<>>
    /\ emitted' = <<>>
    /\ lastOp' = "env"
    /\ startedAt' = -1
    /\ UNCHANGED <<mon, polled, phase, hist>>

MonInit ==
    /\ mon = LogMonitorInit
    /\ fs_exists \in BOOLEAN
    /\ fs_content = <<>>
    /\ emitted = <<>>
    /\ lastOp = "init"
    /\ polled = -1
    /\ phase = "stopped"
    /\ startedAt = -1
    /\ hist = NoHistory

\* the show filters of the configuration, at their defaults
ShowDefaults ==
    [show_pvp_kills |-> TRUE, show_pve_kills |-> TRUE, show_deaths |-> TRUE,
     show_vehicle_destroyed |-> TRUE, show_jumps |-> TRUE, show_corpses |-> FALSE,
     show_disconnects |-> TRUE, show_suicides |-> TRUE]

\* OverlayWindow.__init__: no events, zero counters, an empty feed
OverlayInit ==
    [events |-> <<>>, stats |-> [kills |-> 0, deaths |-> 0, pve |-> 0], feed |-> <<>>]

\* the wall clock readings of the model
Clock0 == <<"0", "9", ":", "0", "0", ":", "0", "0">>
Clock1 == <<"0", "9", ":", "0", "0", ":", "0", "1">>

ParseIdle ==
    /\ line = <<>>
    /\ player_name = NoneStr
    /\ event = NotParsed
    /\ clock = Clock0
    /\ event2 = NotParsed
    /\ overlay = OverlayInit
    /\ show = ShowDefaults

Init == MonInit /\ ParseIdle

Next ==
    \/ \E p \in Paths, re \in BOOLEAN : Start(p, re) /\ UNCHANGED parseVars
    \/ Stop /\ UNCHANGED parseVars
    \/ Reprocess /\ UNCHANGED parseVars
    \/ Poll /\ UNCHANGED parseVars
    \/ \E c \in FileChars : WriteByte(c) /\ UNCHANGED parseVars
    \/ Truncate /\ UNCHANGED parseVars
    \/ Delete /\ UNCHANGED parseVars
    \/ Create /\ UNCHANGED parseVars

Spec == Init /\ [][Next]_vars

\* the timer fires every poll interval for as long as it is active
LiveSpec == Spec /\ WF_vars(Poll /\ UNCHANGED parseVars)

-----------------------------------------------------------------------------
(* Parser inputs and the parser's specification *)

DeathTag == Tok("tag_death", DeathTagText)
VehicleTag == Tok("tag_vehicle", VehicleTagText)
CorpseTag == Tok("tag_corpse", CorpseTagText)
JumpTag == Tok("tag_jump", JumpTagText)
DisconnectTag == Tok("tag_disconnect", DisconnectTagText)
StallTag == Tok("tag_stall", StallTagText)
KillFn == Tok("killfn", KillFnText)
KilledBy == Tok("killedby", KilledByText)
Noise == Tok("word", <<"[", "1", "]">>)

\* the names that occur in quoted strings
Names ==
    {Hero123, HERO123, Bob, BobPadded, NPC_Pirate_02, Lower(NPC_Pirate_02),
     NPC_Pirate_03, Ab_Cd_1}

\* the configured player name: unset, empty, or a handle
Players == {NoneStr, Some(<<>>), Some(Hero123), Some(Lower(Hero123)), Some(NPC_Pirate_02)}

\* the tokens of the freely composed lines
Alphabet ==
    {DeathTag, VehicleTag, CorpseTag, JumpTag,
     DisconnectTag, StallTag, KillFn, KilledBy, Noise,
     Quoted(Bob), Quoted(NPC_Pirate_02),
     Tok("level", LevelTo2), Tok("fromto", FromToText),
     Tok("word", <<"D", "i", "s", "c", "o", "n", "n", "e", "c", "t", "e", "d">>),
     Tok("word", ActorStallWord)}

\* the player names tried with the freely composed lines
FreePlayers == {NoneStr}

FreeLines == UNION {[1..n -> Alphabet] : n \in 0..MaxLineLen}

\* actor death lines in the shapes of the two patterns, over all pairs of names
DeathLines ==
    {<<tag>> \o kf \o <<Quoted(v)>> \o mid \o <<KilledBy, Quoted(k)>> :
        tag \in {DeathTag, Tok("tag_death", Lower(DeathTagText))},
        kf \in {<<>>, <<KillFn>>}, mid \in {<<>>, <<Noise>>},
        v \in Names, k \in Names}

\* lines without any tag, corpse lines, and lines with a bare keyword or with
\* a tag in lower case
OtherLines ==
    {kf \o <<Quoted(v), KilledBy, Quoted(k)>> :
        kf \in {<<>>, <<KillFn>>}, v \in {Bob, NPC_Pirate_02}, k \in {Hero123, NPC_Pirate_02}}
    \cup {<<CorpseTag, Quoted(n)>> : n \in Names}
    \cup {pre \o <<x>> \o post :
              pre \in {<<>>, <<Noise>>, <<Tok("tag_death", Lower(DeathTagText))>>,
                       <<Tok("tag_death", Lower(DeathTagText)), Quoted(Bob)>>},
              x \in {Noise, KilledBy, Tok("word", CNetworkErrorWord),
                     Tok("word", ActorStallWord), DisconnectTag},
              post \in {<<>>, <<Noise>>, <<StallTag>>, <<Quoted(Hero123)>>}}

LevelFrom2 == <<"l", "e", "v", "e", "l", " ", "2", " ", "t", "o", " ", "1">>

\* the level clauses of the vehicle destruction lines
LevelClauses ==
    {<<>>, <<Tok("level", LevelTo2)>>, <<Tok("level", LevelFrom2)>>,
     <<Tok("level", <<"l", "e", "v", "e", "l", " ", "0", " ", "t", "o", " ", "1">>)>>,
     <<Tok("level", <<"l", "e", "v", "e", "l", " ", "1", " ", "t", "o", " ", "2", "0">>)>>}

ORIG_890J_01 == <<"O", "R", "I", "G", "_", "8", "9", "0", "J", "_", "0", "1">>
ORIG_M50_01 == <<"O", "R", "I", "G", "_", "M", "5", "0", "_", "0", "1">>

\* the zone and vehicle ids
ShipIds ==
    {ORIG_890J_01, ORIG_M50_01,
     <<"A", "E", "G", "S", "_", "A", "v", "e", "n", "g", "e", "r", "_", "T", "i", "t", "a", "n", "_", "1", "2">>,
     <<"T", "i", "t", "a", "n", "_", "A", "v", "e", "n", "g", "e", "r">>,
     <<"o", "r", "i", "g", "_", "m", "5", "0">>, <<"X", "Y", "Z", "_", "F", "o", "o">>,
     <<"g", "l", "a", "d", "i", "u", "s">>, <<"D", "R", "A", "K", "_", "_", "x">>, <<"O", "R", "I", "G">>}

\* vehicle destruction lines in the shapes of the two patterns
VehicleLines ==
    {<<tag, Quoted(id)>> \o lvl :
        tag \in {VehicleTag, Tok("tag_vehicle", Lower(VehicleTagText))},
        id \in {Bob, Ab_Cd_1, ORIG_890J_01, ORIG_M50_01}, lvl \in LevelClauses}

ZoneKey == Tok("zonekey", InZoneText)
DmgKey == Tok("dmgkey", WithDamageTypeText)

\* a zone clause, or none
ZoneClauses(ids) == {<<>>} \cup {<<ZoneKey, Quoted(z)>> : z \in ids}

\* actor death lines with supplementary clauses before and behind 'killed by':
\* zones, a damage type in the form of either pattern, a weapon, a direction
SuppLines ==
    {<<DeathTag>> \o kf \o <<Quoted(vk[1])>> \o z1 \o <<KilledBy, Quoted(vk[2])>>
        \o (IF zoneFirst THEN z2 \o d ELSE d \o z2) \o w \o dir :
        kf \in {<<>>, <<KillFn>>},
        vk \in {<<Bob, Hero123>>, <<Bob, Bob>>, <<NPC_Pirate_02, Hero123>>},
        z1 \in ZoneClauses({<<"S", "t", "a", "n", "t", "o", "n">>}),
        z2 \in ZoneClauses(ShipIds \cup {<<>>, <<" ">>}),
        d \in {<<>>, <<DmgKey, Quoted(<<"B", "u", "l", "l", "e", "t">>)>>,
               <<Tok("dmgkv", <<"C", "r", "a", "s", "h">>)>>},
        zoneFirst \in BOOLEAN,
        w \in {<<>>, <<Tok("weapon", <<"L", "a", "s", "e", "r", "_", "S", "1">>)>>},
        dir \in {<<>>, <<Tok("direction", <<"0", ".", "1", " ", "0", ".", "9">>)>>}}

\* the player names tried with the lines that carry supplementary clauses
SuppPlayers == {NoneStr, Some(Hero123)}

\* actor death lines with one more token in front or behind, and lines on which
\* the two actor death patterns find different victims
MixedLines ==
    LET deaths == {<<DeathTag>> \o kf \o <<Quoted(Bob), KilledBy, Quoted(Hero123)>> :
                       kf \in {<<>>, <<KillFn>>}}
    IN  {d \o <<x>> : d \in deaths, x \in Alphabet}
        \cup {<<x>> \o d : d \in deaths, x \in Alphabet}
        \cup {<<DeathTag, KillFn, Quoted(a), Quoted(Bob), KilledBy, Quoted(Hero123)>> :
                  a \in {NPC_Pirate_02, Hero123, <<"K", "O", "P", "I", "O", "N">>}}

TsValid ==
    <<"<", "2", "0", "2", "5", "-", "1", "2", "-", "0", "1", "T", "1",
      "4", ":", "3", "0", ":", "2", "2", ".", "1", "2", "3", "Z", ">">>
TsLeapDay ==
    <<"<", "2", "0", "2", "4", "-", "0", "2", "-", "2", "9", "T", "2",
      "3", ":", "5", "9", ":", "5", "9", ".", "0", "0", "0", "Z", ">">>

\* bracketed timestamps: two parsable ones, a month 13, a 30th of February,
\* a minute 61, and one without the T
Timestamps ==
    {TsValid, TsLeapDay,
     <<"<", "2", "0", "2", "5", "-", "1", "3", "-", "0", "1", "T", "1",
       "4", ":", "3", "0", ":", "2", "2", ".", "1", "2", "3", "Z", ">">>,
     <<"<", "2", "0", "2", "5", "-", "0", "2", "-", "3", "0", "T", "1",
       "4", ":", "3", "0", ":", "2", "2", ".", "1", "2", "3", "Z", ">">>,
     <<"<", "2", "0", "2", "5", "-", "1", "2", "-", "0", "1", "T", "1",
       "4", ":", "6", "1", ":", "2", "2", ".", "1", "2", "3", "Z", ">">>,
     <<"<", "2", "0", "2", "5", "-", "1", "2", "-", "0", "1", " ", "1",
       "4", ":", "3", "0", ":", "2", "2", ".", "1", "2", "3", "Z", ">">>}

\* one line of every category and one of none
Bodies ==
    {<<DeathTag, KillFn, Quoted(Bob), KilledBy, Quoted(Hero123)>>,
     <<DeathTag, Quoted(NPC_Pirate_02), KilledBy, Quoted(NPC_Pirate_03)>>,
     <<VehicleTag, Quoted(ORIG_890J_01), Tok("level", LevelTo2)>>,
     <<CorpseTag, Quoted(Bob)>>,
     <<JumpTag, Tok("fromto", FromToText)>>,
     <<DisconnectTag>>, <<StallTag>>, <<Noise, Noise, Noise>>}

\* lines with a timestamp in front, with one elsewhere, and with none
TsLines ==
    {pre \o b : b \in Bodies,
        pre \in {<<>>} \cup {<<Tok("word", t)>> : t \in Timestamps}
                 \cup {<<Noise, Tok("word", t)>> : t \in Timestamps}}

ParseInit ==
    /\ MonInit
    /\ fs_exists = FALSE
    /\ \/ line \in FreeLines /\ player_name \in FreePlayers
       \/ line \in DeathLines \cup VehicleLines \cup OtherLines /\ player_name \in Players
       \/ line \in SuppLines \cup MixedLines \cup TsLines /\ player_name \in SuppPlayers
    /\ event = NotParsed
    /\ clock = Clock0
    /\ event2 = NotParsed
    /\ overlay = OverlayInit
    /\ show = ShowDefaults

\* the consumer hands one line to parse_line
ParseLine ==
    /\ event = NotParsed
    /\ event' = parse_line(line, player_name, clock)
    /\ UNCHANGED <<line, player_name, clock, event2, overlay, show>>
    /\ UNCHANGED monVars

ParseNext == ParseLine

ParseSpec == ParseInit /\ [][ParseNext]_vars

-----------------------------------------------------------------------------
(* Two calls of parse_line on one line while the wall clock advances *)

TimeInit ==
    /\ MonInit
    /\ fs_exists = FALSE
    /\ line \in TsLines
    /\ player_name \in SuppPlayers
    /\ event = NotParsed
    /\ clock = Clock0
    /\ event2 = NotParsed
    /\ overlay = OverlayInit
    /\ show = ShowDefaults

\* the wall clock moves on
Tick ==
    /\ clock = Clock0
    /\ clock' = Clock1
    /\ UNCHANGED <<line, player_name, event, event2, overlay, show>>
    /\ UNCHANGED monVars

\* parse_line is called once more with the same line and player name
ParseAgain ==
    /\ event # NotParsed
    /\ event2 = NotParsed
    /\ event2' = parse_line(line, player_name, clock)
    /\ UNCHANGED <<line, player_name, event, clock, overlay, show>>
    /\ UNCHANGED monVars

TimeNext == Tick \/ ParseLine \/ ParseAgain

TimeSpec == TimeInit /\ [][TimeNext]_vars

-----------------------------------------------------------------------------
(* OverlayWindow: the consumer of the lines, and the settings dialog *)

\* the number of lines shown in one run of the model
MaxFed == 2

\* config.overlay.max_feed_items as configured in the model
max_feed_items == 1

\* the number of system messages a feed holds in the model
MaxMessages == 1

\* OverlayWindow._should_show
_should_show(ev, config) ==
    LET t == ev.event_type IN
    IF t = "pvp_kill" /\ ~config.show_pvp_kills THEN FALSE
    ELSE IF t = "pve_kill" /\ ~config.show_pve_kills THEN FALSE
    ELSE IF t \in {"death", "death_other"} /\ ~config.show_deaths THEN FALSE
    ELSE IF t = "vehicle" /\ ~config.show_vehicle_destroyed THEN FALSE
    ELSE IF t = "jump" /\ ~config.show_jumps THEN FALSE
    ELSE IF t = "corpse" /\ ~config.show_corpses THEN FALSE
    ELSE IF t = "disconnect" /\ ~config.show_disconnects THEN FALSE
    ELSE IF t = "suicide" /\ ~config.show_suicides THEN FALSE
    ELSE TRUE

\* counters that take a spectated death for a death of the player
UpdateStats_spectated_counted(stats, ev, pn) ==
    IF ev.event_type = "pvp_kill"
    THEN IF /\ ev.is_player_involved = "True" /\ Truthy(ev.killer) /\ Truthy(pn)
            /\ Lower(ev.killer.val) = Lower(pn.val)
         THEN [stats EXCEPT !.kills = @ + 1] ELSE stats
    ELSE IF ev.event_type = "pve_kill"
    THEN IF ev.is_player_involved = "True" THEN [stats EXCEPT !.pve = @ + 1] ELSE stats
    ELSE IF ev.event_type \in {"death", "death_other"} THEN [stats EXCEPT !.deaths = @ + 1]
    ELSE stats

\* OverlayWindow._on_new_line, the update of the session counters
UpdateStats(stats, ev, pn) ==
    IF ev.event_type = "pvp_kill"
    THEN IF /\ ev.is_player_involved = "True" /\ Truthy(ev.killer) /\ Truthy(pn)
            /\ Lower(ev.killer.val) = Lower(pn.val)
         THEN [stats EXCEPT !.kills = @ + 1] ELSE stats
    ELSE IF ev.event_type = "pve_kill"
    THEN IF ev.is_player_involved = "True" THEN [stats EXCEPT !.pve = @ + 1] ELSE stats
    ELSE IF ev.event_type = "death" THEN [stats EXCEPT !.deaths = @ + 1]
    ELSE stats

\* a feed that drops the newest item when it is full
RECURSIVE TrimFeed_newest_first(_, _)
TrimFeed_newest_first(feed, max_items) ==
    IF Len(feed) > max_items
    THEN TrimFeed_newest_first(SubSeq(feed, 1, Len(feed) - 1), max_items)
    ELSE feed

\* OverlayWindow._on_new_line, the trimming of the feed: the oldest items go
RECURSIVE TrimFeed(_, _)
TrimFeed(feed, max_items) ==
    IF Len(feed) > max_items THEN TrimFeed(Tail(feed), max_items) ELSE feed

\* a consumer that parses without the configured player name
on_new_line_event_without_name(l, config_player_name, now) ==
    parse_line(l, NoneStr, now)

\* OverlayWindow._on_new_line: event = parse_line(line, self.config.player_name)
on_new_line_event(l, config_player_name, now) ==
    parse_line(l, config_player_name, now)

\* OverlayWindow._on_new_line behind its first statement, ev being the event
\* parse_line returned; an item of the feed is a label with its text ("event":
\* the label of _add_feed_item, made of the event)
_on_new_line(ov, ev, config_player_name, config_show) ==
    IF ev = NoEvent \/ ~_should_show(ev, config_show) THEN ov
    ELSE [events |-> Append(ov.events, ev),
          stats |-> UpdateStats(ov.stats, ev, config_player_name),
          feed |-> TrimFeed(Append(ov.feed, [label |-> "event", event |-> ev]),
                            max_feed_items)]

\* OverlayWindow._add_system_message: a label put at the end of the feed
_add_system_message(feed, text) == Append(feed, [label |-> text, event |-> NoEvent])

\* OverlayWindow._on_monitoring_started
_on_monitoring_started(ov) ==
    [ov EXCEPT !.feed = _add_system_message(@, "Press Ctrl+H for keyboard shortcuts")]

\* OverlayWindow._on_file_reset: events, counters and feed are cleared
_on_file_reset(ov) ==
    [events |-> <<>>, stats |-> [kills |-> 0, deaths |-> 0, pve |-> 0],
     feed |-> _add_system_message(<<>>, "New Session")]

\* SettingsDialog.apply_to_config: player_input.text().strip() or None
apply_to_config(text) == IF Strip(text) = <<>> THEN NoneStr ELSE Some(Strip(text))

\* the lines fed to the consumer
FeedLines ==
    {<<DeathTag, KillFn, Quoted(Hero123), KilledBy, Quoted(Bob)>>,
     <<DeathTag, KillFn, Quoted(NPC_Pirate_02), KilledBy, Quoted(Hero123)>>,
     <<CorpseTag, Quoted(Bob)>>,
     <<Noise, Noise, Noise>>}

\* what the user types into the player name field
NameInputs == {<<>>, Hero123, BobPadded}

\* how the user leaves the check boxes of the filters
FilterChoices ==
    {ShowDefaults,
     [ShowDefaults EXCEPT !.show_deaths = FALSE, !.show_corpses = TRUE]}

FeedInit ==
    /\ MonInit
    /\ fs_exists = FALSE
    /\ line = <<>>
    /\ player_name \in {apply_to_config(t) : t \in NameInputs}
    /\ event = NotParsed
    /\ clock = Clock0
    /\ event2 = NotParsed
    /\ overlay = OverlayInit
    /\ show = ShowDefaults

\* the signal new_line reaches the consumer with the line l
OnNewLine(l) ==
    /\ Len(overlay.events) < MaxFed
    /\ line' = l
    /\ event' = on_new_line_event(l, player_name, clock)
    /\ overlay' = _on_new_line(overlay, event', player_name, show)
    /\ UNCHANGED <<player_name, clock, event2, show>>
    /\ UNCHANGED monVars

\* the signal file_reset reaches the consumer
OnFileReset ==
    /\ overlay' = _on_file_reset(overlay)
    /\ UNCHANGED <<line, player_name, event, clock, event2, show>>
    /\ UNCHANGED monVars

\* the signal monitoring_started reaches the consumer
OnMonitoringStarted ==
    /\ Cardinality({i \in 1..Len(overlay.feed) : overlay.feed[i].label # "event"})
           < MaxMessages
    /\ overlay' = _on_monitoring_started(overlay)
    /\ UNCHANGED <<line, player_name, event, clock, event2, show>>
    /\ UNCHANGED monVars

\* OverlayWindow.open_settings: the user accepts the dialog with the name
\* field holding text and the check boxes of the filters as in checks
open_settings(text, checks) ==
    /\ player_name' = apply_to_config(text)
    /\ show' = checks
    /\ UNCHANGED <<line, event, clock, event2, overlay>>
    /\ UNCHANGED monVars

FeedNext ==
    \/ \E l \in FeedLines : OnNewLine(l)
    \/ OnFileReset
    \/ OnMonitoringStarted
    \/ \E t \in NameInputs, c \in FilterChoices : open_settings(t, c)

FeedSpec == FeedInit /\ [][FeedNext]_vars

-----------------------------------------------------------------------------
(* The monitor and the overlay together: a session *)

\* the number of lines the game writes in one run of the model
MaxLines == 2

\* the tokens of a line of text: those of the line the game wrote, or, for a
\* piece of one (read from a stale offset behind a truncation), one word; a
\* piece lacks the tag its line begins with
TokensOf(text) ==
    IF \E l \in FeedLines : LineText(l) = text
    THEN CHOOSE l \in FeedLines : LineText(l) = text
    ELSE <<Tok("word", text)>>

\* OverlayWindow.__init__ connects the three signals of the monitor to their
\* slots; the connections are direct, so the slots run in the order of the
\* signals, inside the operation that emits them
RECURSIVE Deliver(_, _, _, _, _)
Deliver(ov, signals, config_player_name, config_show, now) ==
    IF signals = <<>> THEN ov
    ELSE LET s == Head(signals)
             next == IF s.sig = "new_line"
                         THEN _on_new_line(ov,
                                  on_new_line_event(TokensOf(s.line), config_player_name, now),
                                  config_player_name, config_show)
                     ELSE IF s.sig = "file_reset" THEN _on_file_reset(ov)
                     ELSE _on_monitoring_started(ov)
         IN  Deliver(next, Tail(signals), config_player_name, config_show, now)

\* environment: the game appends a whole line to the log
AppendLine(l) ==
    /\ fs_exists
    /\ Cardinality({i \in 1..Len(fs_content) : fs_content[i] = LineBreak}) < MaxLines
    /\ fs_content' = fs_content \o LineText(l) \o <<LineBreak>>
    /\ emitted' = <<>>
    /\ lastOp' = "env"
    /\ UNCHANGED <<mon, fs_exists, polled, phase, startedAt, hist>>

\* the overlay is up, the player name is configured, the log exists
SessionInit ==
    /\ MonInit
    /\ fs_exists = TRUE
    /\ line = <<>>
    /\ player_name = Some(Hero123)
    /\ event = NotParsed
    /\ clock = Clock0
    /\ event2 = NotParsed
    /\ overlay = OverlayInit
    /\ show = ShowDefaults

\* _start_monitoring at startup, the timer, Ctrl+R, and the game writing to
\* the log or beginning a new one; the signals of each step reach the overlay
SessionNext ==
    LET Consumed ==
            /\ overlay' = Deliver(overlay, emitted', player_name, show, clock)
            /\ UNCHANGED <<line, player_name, event, clock, event2, show>>
    IN  \/ mon.filepath = None /\ Start(LogPath, TRUE) /\ Consumed
        \/ Len(overlay.events) < MaxFed /\ Poll /\ Consumed
        \/ Len(overlay.events) < MaxFed /\ Reprocess /\ Consumed
        \/ \E l \in FeedLines : AppendLine(l) /\ Consumed
        \/ Truncate /\ Consumed

SessionSpec == SessionInit /\ [][SessionNext]_vars

-----------------------------------------------------------------------------
(* What the tailer's contract speaks of, stated apart from the code above *)

IsBlank(c) == c \in Whitespace

\* s without its leading and trailing whitespace
Trimmed(s) ==
    LET keep == {i \in 1..Len(s) : ~IsBlank(s[i])} IN
    IF keep = {} THEN <<>>
    ELSE LET lo == CHOOSE i \in keep : \A j \in keep : i <= j
             hi == CHOOSE i \in keep : \A j \in keep : j <= i
         IN  SubSeq(s, lo, hi)

\* the non-blank lines of the text s[i..], trimmed, in order
RECURSIVE LinesFrom(_, _)
LinesFrom(s, i) ==
    IF i > Len(s) THEN <<>>
    ELSE LET j == CHOOSE k \in i..(Len(s) + 1) :
                      /\ k = Len(s) + 1 \/ s[k] = LineBreak
                      /\ \A h \in i..(k - 1) : s[h] # LineBreak
             l == Trimmed(SubSeq(s, i, j - 1))
         IN  (IF l # <<>> THEN <<l>> ELSE <<>>) \o LinesFrom(s, j + 1)

\* the lines carried by the new_line signals of em, in order
RECURSIVE NewLines(_)
NewLines(em) ==
    IF em = <<>> THEN <<>>
    ELSE (IF Head(em).sig = "new_line" THEN <<Head(em).line>> ELSE <<>>)
         \o NewLines(Tail(em))

Resets(em) == {i \in 1..Len(em) : em[i].sig = "file_reset"}

\* nothing a consumer acts on: no new_line, no file_reset
Quiet(em) == \A i \in 1..Len(em) : em[i].sig \notin {"new_line", "file_reset"}

-----------------------------------------------------------------------------
(* Claims about the tailer *)

\* C1: across successive polls the stored offset never decreases unless the
\* file is smaller than at the prior poll; and when a poll finds the file
\* smaller than at the prior poll it emits exactly one file_reset, first, and
\* the lines it emits are those of the file read from offset 0.
C1_OffsetMonotoneUnlessShrunk ==
    [][lastOp' = "poll" /\ polled # -1 =>
        /\ mon'.file_offset < mon.file_offset =>
               ObservedSize(mon) # -1 /\ ObservedSize(mon) < polled
        /\ (ObservedSize(mon) # -1 /\ ObservedSize(mon) < polled) =>
               /\ Resets(emitted') = {1}
               /\ NewLines(emitted') = LinesFrom(fs_content, 1)
               /\ mon'.file_offset = Len(fs_content)]_vars

\* C1 witness: a poll found the file shrunk since the prior poll, reset, and
\* read the new content from its start
C1_Witness ==
    /\ lastOp = "poll"
    /\ Len(emitted) = 2
    /\ emitted[1].sig = "file_reset"
    /\ emitted[2].sig = "new_line"
    /\ polled = 1

\* C2: a poll emits only complete lines: when a poll has emitted lines, the
\* offset it stores lies just behind a line break, the text after the last
\* line break being kept for a later poll.
C2_OnlyCompleteLinesConsumed ==
    (lastOp = "poll" /\ NewLines(emitted) # <<>>) =>
        /\ mon.file_offset > 0
        /\ fs_content[mon.file_offset] = LineBreak

\* C3: a poll that observes currentSize < offset emits file_reset once, before
\* every new_line, and in the same poll reads the smaller file from its start,
\* leaving the offset at its end.
C3_TruncationResetsThenReads ==
    [][(lastOp' = "poll" /\ ObservedSize(mon) # -1
            /\ ObservedSize(mon) < mon.file_offset) =>
        /\ emitted' # <<>>
        /\ emitted'[1] = file_reset
        /\ Cardinality(Resets(emitted')) = 1
        /\ Len(emitted') = 1 + Len(LinesFrom(fs_content, 1))
        /\ \A i \in 2..Len(emitted') :
               emitted'[i] = new_line(LinesFrom(fs_content, 1)[i - 1])
        /\ mon'.file_offset = ObservedSize(mon)]_vars

\* C3 witness: a truncated, rewritten file was reset and read in one poll
C3_Witness ==
    /\ lastOp = "poll"
    /\ Len(emitted) >= 2
    /\ emitted[1] = file_reset
    /\ mon.file_offset = Len(fs_content)
    /\ mon.file_offset > 0

\* C3 witness of the spec's scenario: the file shrank to nothing
C3_WitnessEmptied ==
    lastOp = "poll" /\ emitted = <<file_reset>> /\ fs_content = <<>>

\* C4: reprocess() on a started monitor rewinds to 0 and polls once: every
\* (non-blank, trimmed) line of the file is emitted from the beginning, once,
\* in order, and no file_reset is emitted, whatever the offset was.
C4_ReprocessRereadsWithoutReset ==
    [][lastOp' = "reprocess" =>
        /\ Resets(emitted') = {}
        /\ (phase = "running" /\ fs_exists) =>
               /\ NewLines(emitted') = LinesFrom(fs_content, 1)
               /\ Len(emitted') = Len(LinesFrom(fs_content, 1))
               /\ mon'.file_offset = Len(fs_content)
        /\ (phase = "running" /\ ~fs_exists) =>
               /\ emitted' = <<>>
               /\ mon'.file_offset = 0]_vars

\* C4 witness: a reprocess of a file that had already been read to its end
C4_Witness ==
    /\ lastOp = "reprocess"
    /\ phase = "running"
    /\ polled > 0
    /\ Len(NewLines(emitted)) >= 2

\* C5: start on an existing file leaves the offset at 0 when read_existing is
\* true and at the file's size when it is false, whatever the offset was; the
\* first poll after it, the file having only grown, emits the lines of the
\* bytes from that offset on (the whole file, or only what was written since).
C5_StartOffset ==
    [][/\ (lastOp' = "start" /\ phase' = "running") =>
               /\ mon'.file_offset = startedAt'
               /\ mon'.filepath = LogPath
               /\ mon'.timer_active
       /\ (lastOp' = "poll" /\ startedAt # -1) =>
               /\ NewLines(emitted') =
                      LinesFrom(SubSeq(fs_content, startedAt + 1, Len(fs_content)), 1)
               /\ Resets(emitted') = {}]_vars

\* C5 witness: a start at the end of a non-empty file, followed by writes
C5_Witness ==
    /\ phase = "running"
    /\ startedAt > 0
    /\ Len(fs_content) > startedAt
    /\ mon.file_offset = startedAt

\* C6: after a start on a missing path monitoring has not begun: until a later
\* successful start no polling is scheduled and no monitoring_started, line or
\* reset is emitted.
C6_FailedStartStaysSilent ==
    phase = "failed" => (~mon.timer_active /\ emitted = <<>>)

\* C7: stop() is safe and idempotent in every state: it leaves the timer
\* inactive, the path cleared and the offset 0, a further stop changes nothing,
\* and from a stop to the next start no new_line or file_reset is emitted,
\* reprocess calls and file changes included.
C7_StopIdempotentAndSilent ==
    [][/\ lastOp' = "stop" =>
               /\ ~mon'.timer_active
               /\ mon'.filepath = None
               /\ mon'.file_offset = 0
       /\ (lastOp = "stop" /\ lastOp' = "stop") => mon' = mon
       /\ phase' = "stopped" => Quiet(emitted')
       /\ (phase = "stopped" /\ lastOp' \notin {"start", "stop"}) => mon' = mon]_vars

\* C7 witness: reprocess was called on a stopped monitor whose file has lines
C7_Witness ==
    /\ phase = "stopped"
    /\ lastOp = "reprocess"
    /\ fs_exists
    /\ LinesFrom(fs_content, 1) # <<>>
    /\ mon.file_size > 0

-----------------------------------------------------------------------------
(* Claims about the parser *)

Parsed == event # NotParsed

\* the six tag markers, as written
TagMarkers ==
    {DeathTagText, VehicleTagText, CorpseTagText, JumpTagText,
     DisconnectTagText, StallTagText}

\* the bare keywords RE_DISCONNECT and RE_STALL also accept
BareKeywords == {DisconnectWord, CNetworkErrorWord, ActorStallWord}

HasTagMarker(l) == \E m \in TagMarkers : Contains(LineText(l), m)

HasMarkerOrKeywordAnyCase(l) ==
    LET text == Lower(LineText(l)) IN
    \E m \in TagMarkers \cup BareKeywords : Contains(text, Lower(m))

\* C8 as stated: a line that contains none of the six tag markers yields no
\* event, for every player name.
C8_NoMarkerNoEvent ==
    (Parsed /\ ~HasTagMarker(line)) => event = NoEvent

\* C8 amended: a line that contains, in any letter case, none of the six tag
\* markers and none of the bare keywords disconnect, CNetworkError, ActorStall
\* yields no event, for every player name.
C8_NoMarkerNoKeywordNoEvent ==
    Parsed => (event = NoEvent \/ HasMarkerOrKeywordAnyCase(line))

\* C8 witness: an untagged line in the shape of a kill was parsed to nothing
C8_Witness ==
    /\ Parsed
    /\ ~HasMarkerOrKeywordAnyCase(line)
    /\ Len(line) = 3
    /\ line[1].k = "q" /\ line[2].k = "killedby" /\ line[3].k = "q"
    /\ player_name = Some(NPC_Pirate_02)
    /\ event = NoEvent

\* a name matches the player name, ignoring case (never when it is unset or empty)
IsLocal(name, pn) == Truthy(pn) /\ Lower(name) = Lower(pn.val)

\* C9: a death line whose extracted killer equals the victim, ignoring case,
\* yields a Suicide event whatever the NPC status of the name and whatever the
\* player name; is_player_involved is True iff the killer matches the player
\* name ignoring case, and False otherwise (also when no player name is set).
C9_SelfKillIsSuicide ==
    (Parsed /\ DeathMatch(line).ok
        /\ Lower(Strip(DeathMatch(line).g2)) = Lower(Strip(DeathMatch(line).g1))) =>
        /\ event.event_type = "suicide"
        /\ event.killer = Some(Strip(DeathMatch(line).g2))
        /\ event.victim = Some(Strip(DeathMatch(line).g1))
        /\ event.is_player_involved =
               PyBool(IsLocal(Strip(DeathMatch(line).g2), player_name))

\* C9 witness: an NPC-named killer and victim differing in case, the player
\* being that name
C9_Witness ==
    /\ Parsed
    /\ DeathMatch(line).ok
    /\ DeathMatch(line).g1 # DeathMatch(line).g2
    /\ is_npc(DeathMatch(line).g1)
    /\ event.event_type = "suicide"
    /\ event.is_player_involved = "True"

\* C10: a death line in which neither killer nor victim matches the player
\* name (or none is set) and both match the NPC heuristic yields no event.
C10_NpcVsNpcSuppressed ==
    (Parsed /\ DeathMatch(line).ok
        /\ Lower(Strip(DeathMatch(line).g2)) # Lower(Strip(DeathMatch(line).g1))
        /\ ~IsLocal(Strip(DeathMatch(line).g1), player_name)
        /\ ~IsLocal(Strip(DeathMatch(line).g2), player_name)
        /\ is_npc(Strip(DeathMatch(line).g1))
        /\ is_npc(Strip(DeathMatch(line).g2))) =>
        event = NoEvent

\* the victim and the killer a death line names, and whether they differ
Victim == Strip(DeathMatch(line).g1)
Killer == Strip(DeathMatch(line).g2)
DeathLineOfTwo ==
    LET m == DeathMatch(line) IN m.ok /\ Lower(Strip(m.g2)) # Lower(Strip(m.g1))

\* C11: on a death line whose killer differs from the victim, a victim that
\* matches the player name ignoring case makes the event a Death with
\* is_player_involved True, whether or not killer or victim look like NPCs.
C11_LocalVictimIsDeath ==
    (Parsed /\ DeathLineOfTwo /\ IsLocal(Victim, player_name)) =>
        /\ event.event_type = "death"
        /\ event.is_player_involved = "True"

\* C11 witness: the player, under an NPC-looking name written in another case,
\* is killed by an NPC
C11_Witness ==
    /\ Parsed /\ DeathLineOfTwo
    /\ IsLocal(Victim, player_name) /\ Some(Victim) # player_name
    /\ is_npc(Victim) /\ is_npc(Killer)
    /\ event.event_type = "death"

\* C12: on a death line whose killer differs from the victim, where the killer
\* matches the player name and the victim does not, the event is a PveKill if
\* the victim matches the NPC heuristic and a PvpKill otherwise, and
\* is_player_involved is True in both cases.
C12_LocalKillerPveOrPvp ==
    (Parsed /\ DeathLineOfTwo
        /\ IsLocal(Killer, player_name) /\ ~IsLocal(Victim, player_name)) =>
        /\ event.event_type = IF is_npc(Victim) THEN "pve_kill" ELSE "pvp_kill"
        /\ event.is_player_involved = "True"

\* C12 witness: the player kills an NPC
C12_Witness ==
    /\ Parsed /\ DeathLineOfTwo
    /\ IsLocal(Killer, player_name) /\ ~IsLocal(Victim, player_name)
    /\ is_npc(Victim)
    /\ event.event_type = "pve_kill"
    /\ event.is_player_involved = "True"

\* C13: on a death line where neither killer nor victim matches the player
\* name, an NPC victim with a non-NPC killer yields a PveKill, a non-NPC
\* victim yields a DeathOther, and is_player_involved is not True.
C13_SpectatedDeaths ==
    (Parsed /\ DeathLineOfTwo
        /\ ~IsLocal(Killer, player_name) /\ ~IsLocal(Victim, player_name)) =>
        /\ (is_npc(Victim) /\ ~is_npc(Killer)) => event.event_type = "pve_kill"
        /\ ~is_npc(Victim) => event.event_type = "death_other"
        /\ (~is_npc(Victim) \/ ~is_npc(Killer)) => event.is_player_involved # "True"

\* C13 witness: with a player name set, a stranger kills an NPC
C13_Witness ==
    /\ Parsed /\ DeathLineOfTwo
    /\ Truthy(player_name)
    /\ ~IsLocal(Killer, player_name) /\ ~IsLocal(Victim, player_name)
    /\ is_npc(Victim) /\ ~is_npc(Killer)
    /\ event.event_type = "pve_kill"
    /\ event.is_player_involved = "False"

\* the quoted strings behind a vehicle destruction tag, the level clauses
\* behind such a string, and the target level M of the first  level N to M
VehicleIds ==
    {j \in 1..Len(line) : line[j].k = "q" /\ \E i \in 1..(j - 1) : line[i].k = "tag_vehicle"}
LevelsBehindId ==
    {m \in 1..Len(line) : line[m].k = "level" /\ \E j \in VehicleIds : j < m}
TargetLevel == Split(line[Least(LevelsBehindId)].s, " ")[4]
CarriesVehicleTag == Contains(LineText(line), VehicleTagText)

\* C14: a line that carries the marker <Vehicle Destruction> (and is not an
\* actor death line) with a quoted id followed by a clause  level N to M
\* yields a vehicle event whose destruction_level is "full" if M is "2" and
\* "soft" otherwise; with a quoted id behind the tag and no level clause
\* behind the id it yields a vehicle event with destruction_level "unknown".
C14_VehicleSeverity ==
    (Parsed /\ CarriesVehicleTag /\ VehicleIds # {} /\ ~DeathMatch(line).ok) =>
        /\ event.event_type = "vehicle"
        /\ LevelsBehindId # {} =>
               event.destruction_level = IF TargetLevel = <<"2">> THEN "full" ELSE "soft"
        /\ LevelsBehindId = {} => event.destruction_level = "unknown"

\* C14 witness: a vehicle that goes from level 2 to level 1 is a soft death
C14_Witness ==
    /\ Parsed /\ CarriesVehicleTag
    /\ LevelsBehindId # {} /\ line[Least(LevelsBehindId)].s = LevelFrom2
    /\ event.event_type = "vehicle"
    /\ event.destruction_level = "soft"

\* the event types of the actor death category, and the category of a type
DeathTypes == {"death", "suicide", "pve_kill", "pvp_kill", "death_other"}
Category(t) == IF t \in DeathTypes THEN "death" ELSE t

\* the line matches a pattern of the category
MatchesDeath == RE_ACTOR_DEATH(line).ok \/ RE_ACTOR_DEATH_ALT(line).ok
MatchesVehicle ==
    RE_VEHICLE_DESTROY(line).ok \/ (RE_VEHICLE_DESTROY_ALT(line).ok /\ CarriesVehicleTag)
MatchesCorpse == RE_CORPSE(line).ok
MatchesJump == RE_JUMP(line).ok
MatchesDisconnect == RE_DISCONNECT(line)
MatchesStall == RE_STALL(line)

\* the line carries the tag marker of a category that has a primary and a
\* fallback pattern, in any case, and matches neither of the two
DeathTagUnmatched == After(line, 0, "tag_death") # {} /\ ~MatchesDeath
VehicleTagUnmatched == After(line, 0, "tag_vehicle") # {} /\ ~MatchesVehicle

\* C15 as stated: a line that carries the tag marker of a category and matches
\* neither the primary nor the fallback pattern of that category yields no
\* event at all.
C15_UnmatchedTagNoEvent ==
    (Parsed /\ (DeathTagUnmatched \/ VehicleTagUnmatched)) => event = NoEvent

\* C15 amended: such a line yields no event of that category, and it yields no
\* event at all exactly when it matches no pattern of any other category.
C15_UnmatchedTagFallsThrough ==
    Parsed =>
        /\ DeathTagUnmatched =>
              /\ Category(event.event_type) # "death"
              /\ event = NoEvent <=>
                    ~(MatchesVehicle \/ MatchesCorpse \/ MatchesJump
                        \/ MatchesDisconnect \/ MatchesStall)
        /\ VehicleTagUnmatched =>
              /\ event.event_type # "vehicle"
              /\ event = NoEvent <=>
                    ~(MatchesDeath \/ MatchesCorpse \/ MatchesJump
                        \/ MatchesDisconnect \/ MatchesStall)

\* C15 witness: an actor death marker without names, followed by a word that
\* holds 'disconnect', is taken for a disconnect
C15_Witness ==
    /\ Parsed /\ DeathTagUnmatched
    /\ After(line, 0, "tag_disconnect") = {}
    /\ event.event_type = "disconnect"

\* the first category, in the order of parse_line, that the line matches
FirstMatching ==
    IF MatchesDeath THEN "death"
    ELSE IF MatchesVehicle THEN "vehicle"
    ELSE IF MatchesCorpse THEN "corpse"
    ELSE IF MatchesJump THEN "jump"
    ELSE IF MatchesDisconnect THEN "disconnect"
    ELSE IF MatchesStall THEN "stall"
    ELSE "none"

\* the number of categories the line matches
MatchCount ==
    Cardinality({c \in {"death", "vehicle", "corpse", "jump", "disconnect", "stall"} :
        \/ c = "death" /\ MatchesDeath
        \/ c = "vehicle" /\ MatchesVehicle
        \/ c = "corpse" /\ MatchesCorpse
        \/ c = "jump" /\ MatchesJump
        \/ c = "disconnect" /\ MatchesDisconnect
        \/ c = "stall" /\ MatchesStall})

\* C16: a line of ten characters or more is classified as the first category
\* it matches in the order actor death, vehicle destruction, corpse, jump,
\* disconnect, actor stall; and on a line the primary actor death pattern
\* matches, victim and killer are those of the primary pattern.
C16_FirstCategoryWins ==
    (Parsed /\ Len(LineText(line)) >= 10) =>
        LET primary == RE_ACTOR_DEATH(line) IN
        /\ Category(event.event_type) = FirstMatching
        /\ primary.ok =>
              /\ event.victim = Some(Strip(primary.g1))
              /\ event.killer = Some(Strip(primary.g2))

\* C16 witness: a line on which the two actor death patterns find different
\* victims
C16_Witness ==
    /\ Parsed
    /\ RE_ACTOR_DEATH(line).ok /\ RE_ACTOR_DEATH_ALT(line).ok
    /\ RE_ACTOR_DEATH(line).g1 # RE_ACTOR_DEATH_ALT(line).g1
    /\ event.victim = Some(RE_ACTOR_DEATH(line).g1)

\* a line that matches a vehicle pattern and a later category as well is
\* classified once, as a vehicle destruction
C16_WitnessSeveral ==
    /\ Parsed /\ MatchCount >= 2
    /\ FirstMatching = "vehicle"
    /\ event.event_type = "vehicle"

\* the line starts with a bracketed timestamp that names a real date and time
HasLeadingTimestamp ==
    line # <<>> /\ line[1] \in {Tok("word", TsValid), Tok("word", TsLeapDay)}

\* an event without its timestamp
Untimed(ev) == [ev EXCEPT !.timestamp = <<>>]

C17_WitnessFallback ==
    /\ event # NoEvent /\ event2 # NotParsed
    /\ ~HasLeadingTimestamp
    /\ event.timestamp = Clock0 /\ event2.timestamp = Clock1

\* C18: a change of the configured player name touches no line already fed,
\* and every line fed is classified with the name configured at that moment.
C18_NameInEffectWhenFed ==
    [][/\ player_name' # player_name => (event' = event /\ overlay' = overlay)
       /\ (line' # line \/ event' # event
              \/ Len(overlay'.events) > Len(overlay.events)) =>
             /\ event' = parse_line(line', player_name, clock)
             /\ overlay'.events # overlay.events =>
                   overlay'.events = Append(overlay.events, event')]_vars

\* C18 witness: the same death line fed before and after a change of the name
\* is a Death first and a PvpKill then
C18_Witness ==
    /\ Len(overlay.events) >= 2
    /\ overlay.events[1].victim = overlay.events[2].victim
    /\ overlay.events[1].killer = overlay.events[2].killer
    /\ overlay.events[1].event_type = "death"
    /\ overlay.events[2].event_type = "pvp_kill"
    /\ overlay.stats.deaths = 1 /\ overlay.stats.kills = 1

\* the zone clauses of a line: in zone '..' with a zone that is not blank
ZoneClausesOfLine ==
    {j \in 1..(Len(line) - 1) :
        line[j].k = "zonekey" /\ line[j + 1].k = "q" /\ Strip(line[j + 1].s) # <<>>}

\* C19: on a death line each supplementary field is taken from the whole line
\* on its own; in particular the event of a line of the canonical format, its
\* zone clause standing before 'killed by' and its damage type behind the
\* killer, has the zone as its location and the damage type as well, and the
\* event of a line without a zone clause has no location.
C19_ZoneCapturedAnywhere ==
    (Parsed /\ RE_ACTOR_DEATH(line).ok /\ event.event_type \in DeathTypes \ {"suicide"}) =>
        /\ ZoneClausesOfLine # {} =>
               event.location = Some(Strip(line[Least(ZoneClausesOfLine) + 1].s))
        /\ ZoneClausesOfLine = {} => event.location = NoneStr

\* the entries of the ship table whose key occurs in the id, ignoring case,
\* and the manufacturer prefixes the id starts with
ShipHits(id) ==
    {i \in 1..Len(SHIP_LOOKUP) : Contains(Lower(id), Lower(SHIP_LOOKUP[i][1]))}
PrefixHits(id) ==
    {p \in 1..Len(VEHICLE_NAMES) : StartsWith(id, VEHICLE_NAMES[p][1] \o <<"_">>)}

Jump890 == <<"8", "9", "0", " ", "J", "u", "m", "p">>

\* C20: the ship of an event with a location is the friendly name of the
\* first entry of the ship table whose key occurs in the location; if there
\* is no such entry and the location is PREFIX_Remainder with a known
\* manufacturer prefix, it is the manufacturer's name followed by the
\* remainder (the text up to the next underscore); otherwise there is none.
C20_ShipNameResolution ==
    (Parsed /\ event.location.some /\ event.location.val # <<>>) =>
        LET id == event.location.val IN
        IF ShipHits(id) # {}
        THEN event.ship = Some(SHIP_LOOKUP[Least(ShipHits(id))][2])
        ELSE IF PrefixHits(id) # {}
        THEN event.ship =
                 Some(Strip(VEHICLE_NAMES[Least(PrefixHits(id))][2] \o <<" ">>
                                \o Split(id, "_")[2]))
        ELSE event.ship = NoneStr

\* C20 witness: ORIG_890J_01 is resolved through the entry 890 of the ship
\* table although it starts with the manufacturer prefix of Origin
C20_Witness ==
    /\ Parsed
    /\ event.location = Some(ORIG_890J_01)
    /\ PrefixHits(ORIG_890J_01) # {}
    /\ event.ship = Some(Jump890)

\* an id with a manufacturer prefix and no ship of the table in it
C20_WitnessManufacturer ==
    /\ Parsed
    /\ event.location = Some(ORIG_M50_01)
    /\ event.ship = Some(<<"O", "r", "i", "g", "i", "n", " ", "M", "5", "0">>)

\* the names a line quotes, stripped as parse_line strips them
QuotedNames == {Strip(line[i].s) : i \in {j \in DOMAIN line : line[j].k = "q"}}

\* one of the fixed substrings stands somewhere in the name, case ignored
HasNpcSubstring(name) ==
    LET low == Lower(name) IN
    \E p \in 1..Len(NPC_PATTERNS) :
        \E i \in 1..(Len(name) - Len(NPC_PATTERNS[p]) + 1) :
            SubSeq(low, i, i + Len(NPC_PATTERNS[p]) - 1) = Lower(NPC_PATTERNS[p])

\* the name begins with letters, an underscore, letters, an underscore, a digit
ShapeWordWordDigits(name) ==
    LET parts == Split(name, "_") IN
    /\ Len(parts) >= 3
    /\ \A h \in 1..2 : parts[h] # <<>> /\ \A c \in 1..Len(parts[h]) : IsAlpha(parts[h][c])
    /\ parts[3] # <<>> /\ parts[3][1] \in Digits

LooksLikeNpc(name) == HasNpcSubstring(name) \/ ShapeWordWordDigits(name)

\* C21: is_npc holds of a name iff the name contains one of the fixed
\* substrings, case ignored, or has the shape Word_Word_Digits; every other
\* name, the empty one included, counts as a player character, so that the
\* death of such a name which nobody local is part of is a DeathOther event
\* and the death of an NPC name a PveKill event.
C21_NpcNames ==
    Parsed =>
        /\ \A n \in QuotedNames : is_npc(n) <=> LooksLikeNpc(n)
        /\ (~Truthy(player_name) /\ DeathLineOfTwo) =>
               LET npc == LooksLikeNpc(Victim) IN
               /\ npc <=> event.event_type = "pve_kill"
               /\ ~npc <=> event.event_type = "death_other"

\* C21 witness: KOPION is an NPC through the substring Kopion only when the
\* case is ignored
C21_Witness ==
    /\ Parsed /\ DeathLineOfTwo /\ ~Truthy(player_name)
    /\ Victim = <<"K", "O", "P", "I", "O", "N">>
    /\ ~is_npc_case_sensitive(Victim)
    /\ event.event_type = "pve_kill"

\* Ab_Cd_1 is an NPC through its shape, none of the substrings being in it
C21_WitnessShape ==
    /\ Parsed /\ DeathLineOfTwo /\ ~Truthy(player_name)
    /\ Victim = Ab_Cd_1 /\ ~HasNpcSubstring(Victim)
    /\ event.event_type = "pve_kill"

\* the empty name and a plain handle are player characters
C21_WitnessPlayer ==
    /\ Parsed /\ <<>> \in QuotedNames /\ ~is_npc(<<>>)
    /\ DeathLineOfTwo /\ ~Truthy(player_name) /\ Victim = Bob
    /\ event.event_type = "death_other"

\* parse_line returned an event
Returned == Parsed /\ event # NoEvent

\* C22: an event carries only the fields of its kind: a jump state only on a
\* Jump event, a vehicle name and a destruction level only on a
\* VehicleDestroyed event, a killer only on the events of a death line, and a
\* Disconnect or ActorStall event nothing but its type, its timestamp and
\* is_player_involved (False).
C22_FieldsOfKind ==
    Returned =>
        /\ event.jump_state.some => event.event_type = "jump"
        /\ (event.vehicle_name.some \/ event.destruction_level # "None") =>
               event.event_type = "vehicle"
        /\ event.killer.some => event.event_type \in DeathTypes
        /\ event.event_type \in {"disconnect", "stall"} =>
               event = [event_type |-> event.event_type, timestamp |-> event.timestamp,
                        killer |-> NoneStr, victim |-> NoneStr, weapon |-> NoneStr,
                        damage_type |-> NoneStr, ship |-> NoneStr, location |-> NoneStr,
                        direction |-> NoneStr, vehicle_name |-> NoneStr,
                        destruction_level |-> "None", jump_state |-> NoneStr,
                        is_player_involved |-> "False"]

\* C22 witness: a Disconnect event of a line that quotes a name and names a
\* destruction level carries none of them
C22_Witness ==
    /\ Returned /\ event.event_type = "disconnect"
    /\ \E i \in 1..Len(line) : line[i].k = "q"
    /\ ~event.victim.some /\ ~event.vehicle_name.some

\* events of the other kinds, with the fields of their kind
C22_WitnessJump ==
    Returned /\ event.event_type = "jump" /\ event.jump_state.some /\ ~event.killer.some

C22_WitnessVehicle ==
    /\ Returned /\ event.event_type = "vehicle"
    /\ event.vehicle_name.some /\ event.destruction_level = "full"
    /\ ~event.jump_state.some

C22_WitnessKill ==
    /\ Returned /\ event.event_type = "pvp_kill" /\ event.killer.some
    /\ ~event.vehicle_name.some /\ event.destruction_level = "None"

-----------------------------------------------------------------------------
(* Further claims about the tailer *)

\* C27: a poll emits file_reset iff the size it observes is strictly less than
\* the stored offset (a poll that returns before looking at the file emits
\* none); in particular the first poll after the file was replaced emits no
\* reset when the new file is at least as long as the offset.
C27_ResetIffShrunk ==
    [][lastOp' = "poll" =>
           /\ Resets(emitted') # {} <=>
                  (ObservedSize(mon) # -1 /\ ObservedSize(mon) < mon.file_offset)
           /\ (hist.replaced = "yes" /\ ObservedSize(mon) >= mon.file_offset) =>
                  Resets(emitted') = {}]_vars

\* C27 witness: the file was replaced by one that is longer than the offset;
\* the next poll emitted no reset and read the new file from the old offset
C27_Witness ==
    /\ lastOp = "poll"
    /\ hist.replaced = "seen"
    /\ Resets(emitted) = {}
    /\ NewLines(emitted) # <<>>
    /\ NewLines(emitted) # LinesFrom(fs_content, 1)

\* the file was replaced by one exactly as long as the offset: no reset, no line
C27_WitnessSameSize ==
    /\ lastOp = "poll"
    /\ hist.replaced = "seen"
    /\ polled > 0 /\ polled = mon.file_offset
    /\ emitted = <<>>

\* a poll that saw the file shrunk
C27_WitnessReset ==
    lastOp = "poll" /\ hist.replaced = "seen" /\ Resets(emitted) # {}

\* the offset a _poll run by the step reads from: 0 behind a reset and in
\* reprocess, the stored offset otherwise
ReadsFrom ==
    IF lastOp' = "reprocess" \/ Resets(emitted') # {} THEN 0 ELSE mon.file_offset

Tailing ==
    /\ hist.tailFrom # -1
    /\ hist.tailFrom = 0 \/ fs_content[hist.tailFrom] = LineBreak

\* the lines appended since that start: the non-blank lines, trimmed, of the
\* text between the offset of the start and the last line break
AppendedLines ==
    LET breaks == {i \in (hist.tailFrom + 1)..Len(fs_content) : fs_content[i] = LineBreak}
    IN  IF breaks = {} THEN <<>>
        ELSE LinesFrom(SubSeq(fs_content, hist.tailFrom + 1,
                              CHOOSE i \in breaks : \A j \in breaks : j <= i), 1)

\* the file ends with a complete line
EndsWithLine == fs_content = <<>> \/ fs_content[Len(fs_content)] = LineBreak

\* a poll has just read a file that ends with a complete line
AllLinesPolled == lastOp = "poll" /\ mon.file_offset = Len(fs_content) /\ EndsWithLine

\* C23: after a successful start, while the file is only appended to and
\* neither stop nor reprocess is called, every non-empty line appended to the
\* file is eventually emitted by some poll, once, and in the order of the
\* file: whenever a poll has read a file of complete lines, the lines emitted
\* since the start are the lines appended, and that happens again and again.
C23_AppendedLinesEmittedOnceInOrder ==
    /\ []((Tailing /\ AllLinesPolled) => hist.delivered = AppendedLines)
    /\ []<>(~Tailing \/ ~EndsWithLine \/ hist.delivered = AppendedLines)

\* C28: in every reachable state the polling timer is active iff a file path
\* is set, after any sequence of start (on existing or missing paths), stop
\* and reprocess calls.
C28_TimerIffPath ==
    mon.timer_active <=> mon.filepath # None

-----------------------------------------------------------------------------
(* Further claims about the consumer *)

\* the step is a call of _on_new_line: a line other than the last one, or
\* another event of the same line, or one more event shown
LineFed ==
    line' # line \/ event' # event \/ Len(overlay'.events) > Len(overlay.events)

\* C25: spectated deaths are not counted: whatever lines are fed, a line whose
\* event is a DeathOther leaves the three session counters as they were.
C25_SpectatedDeathNotCounted ==
    [][(LineFed /\ event'.event_type = "death_other") =>
           overlay'.stats = overlay.stats]_vars

\* C25 witness: a spectated death was shown behind a counted death of the
\* player, and the counters are those of the first event alone
C25_Witness ==
    /\ Len(overlay.events) = 2
    /\ overlay.events[1].event_type = "death"
    /\ overlay.events[2].event_type = "death_other"
    /\ overlay.stats = [kills |-> 0, deaths |-> 1, pve |-> 0]

\* C26 as stated: after every line processed by _on_new_line the feed holds at
\* most max_feed_items items.
C26_FeedWithinCap ==
    [][LineFed => Len(overlay'.feed) <= max_feed_items]_vars

\* the items of a feed that show events
EventItems(feed) == {i \in 1..Len(feed) : feed[i].label = "event"}

\* C26 amended: after every line whose event is shown the feed holds at most
\* max_feed_items items, system messages included, the oldest items having
\* been dropped first (the feed is the end of the former feed and the new
\* item); a line that shows nothing leaves the feed as it is; and the items
\* showing events are never more than max_feed_items.
C26_FeedTrimmedWhenEventShown ==
    [][/\ (LineFed /\ overlay'.events # overlay.events) =>
              LET grown == Append(overlay.feed,
                                  [label |-> "event", event |-> event'])
              IN  /\ Len(overlay'.feed) <= max_feed_items
                  /\ overlay'.feed =
                         SubSeq(grown, Len(grown) - Len(overlay'.feed) + 1, Len(grown))
                  /\ Len(overlay'.feed) = max_feed_items \/ overlay'.feed = grown
       /\ (LineFed /\ overlay'.events = overlay.events) => overlay'.feed = overlay.feed
       /\ Cardinality(EventItems(overlay'.feed)) <= max_feed_items]_vars

\* C26 witness: a feed full of events took one more event and lost its oldest
C26_Witness ==
    /\ Len(overlay.events) = 2
    /\ Len(overlay.feed) = max_feed_items
    /\ overlay.feed[max_feed_items].event = overlay.events[2]
    /\ overlay.events[1] # overlay.events[2]

\* a system message stands behind a full feed of events, and a line that
\* shows nothing has been processed since
C26_WitnessOverfull ==
    /\ Len(overlay.feed) = max_feed_items + 1
    /\ overlay.feed[Len(overlay.feed)].label # "event"
    /\ event = NoEvent

\* C30: the show filters do not affect the session counters: whatever lines
\* are fed, the counters after a line are those any other setting of the
\* filters would have given.
C30_FiltersLeaveCountersAlone ==
    [][LineFed =>
           \A c \in FilterChoices :
               _on_new_line(overlay, event', player_name, c).stats = overlay'.stats]_vars

\* the events of the lines of the current file the monitor has read
EventsRead ==
    LET read == LinesFrom(SubSeq(fs_content, 1, mon.file_offset), 1) IN
    [i \in 1..Len(read) |->
        parse_line(TokensOf(read[i]), player_name, clock)]

\* how many of them are of one of the types and involve the player
Counted(types) ==
    Cardinality({i \in 1..Len(EventsRead) :
                    /\ EventsRead[i].event_type \in types
                    /\ EventsRead[i].is_player_involved = "True"})

\* C29: no log line is counted twice: across polls, reprocess calls and
\* truncation resets each session counter is the number of the corresponding
\* events among the lines of the current file read since the last reset,
\* every line counting once at most (a truncated file no poll has seen yet
\* is set aside).
C29_NoLineCountedTwice ==
    (mon.timer_active /\ mon.file_offset <= Len(fs_content)) =>
        /\ overlay.stats.kills = Counted({"pvp_kill"})
        /\ overlay.stats.deaths = Counted({"death"})
        /\ overlay.stats.pve = Counted({"pve_kill"})

====
